---- MODULE Spec2Model ----
(***************************************************************************)
(* go-observability: the telemetry lifecycle (InitOtel and the shutdown    *)
(* closure it returns, otel.go) and the instrumentation chains (Gin        *)
(* middleware and gRPC interceptors).                                      *)
(***************************************************************************)
EXTENDS Integers, Sequences, FiniteSets, TLC

(***************************************************************************)
(* Bounds of the model.                                                    *)
(***************************************************************************)
\* spans the application ends while the tracer provider is alive
MaxSpans == 2
\* distinct non-zero trace ids and span ids
MaxId == 2

(***************************************************************************)
(* Telemetry lifecycle: otel.go                                            *)
(***************************************************************************)
VARIABLES
  cfgMode,        \* cfg.MetricsMode as resolved by the caller: pull / push / hybrid
  collectorUp,    \* whether the OTLP endpoint cfg.OtelEndpoint is reachable now
  otel,           \* "uninit", "ready" (InitOtel returned a shutdown func), "failed"
  tpState,        \* tracer provider tp: "none", "live", "shutdown"
  mpState,        \* meter provider mp: "none", "live", "shutdown"
  readers,        \* metric readers attached to mp: subset of {"pull", "push"}
  globals,        \* process-wide registrations made by otel.Set...: subset of GlobalSlots
  metricsGo,      \* goroutine running metricsServer.ListenAndServe: none/spawned/serving/exited
  inShutdown,     \* metricsServer has been told to shut down
  bindFailed,     \* ListenAndServe returned an error other than ErrServerClosed
  spansEnded,     \* spans ended by the application while tp was live
  spanQueue,      \* spans waiting in the batch span processor
  spansHanded,    \* spans given to the trace exporter
  exportFailed,   \* some export was attempted while the collector was unreachable
  shutPc,         \* position of the shutdown closure: idle/server/tp/mp/ret/done
  hasDeadline,    \* the ctx given to shutdown carries a deadline
  expired,        \* that deadline has passed
  blocked,        \* teardown steps that cannot complete on their own
  steps,          \* teardown steps performed so far, in order
  failed,         \* teardown steps whose call returned an error
  errs,           \* the closure's local errs slice
  result          \* what the closure returned: [nil |-> BOOLEAN, msg |-> Seq]

otelVars == <<cfgMode, collectorUp, otel, tpState, mpState, readers, globals,
              metricsGo, inShutdown, bindFailed, spansEnded, spanQueue,
              spansHanded, exportFailed, shutPc, hasDeadline, expired,
              blocked, steps, failed, errs, result>>

(***************************************************************************)
(* Instrumentation chains: Gin middleware and gRPC interceptors            *)
(***************************************************************************)
VARIABLES
  mwCfg,          \* the *ObservabilityMiddlewareConfig the Gin chain was built with
  rq,             \* the request being served, with its position in the chain
  last            \* inputs and response of the last request whose panic was recovered

chainVars == <<mwCfg, rq, last>>

(***************************************************************************)
(* Repeated calls on the telemetry handle, the sampler, and LoadCfg        *)
(***************************************************************************)
VARIABLES
  reinit,         \* InitOtel calls made after the first one
  globalsOwner,   \* per global slot: the InitOtel call that installed it last (0: the first)
  again,          \* what the last further InitOtel call constructed
  lookup,         \* what the last GetTracer / GetMeter call returned
  shutCalls,      \* invocations of the shutdown closure after the first one
  priorSteps,     \* teardown calls made by earlier invocations of the closure
  sampleRate,     \* cfg.OtelTracingSampleRate, in percent
  trace,          \* the trace being handled: its origin and the spans started for it
  sources,        \* what each configuration source sets
  loaded,         \* what LoadCfg returned
  parked          \* the request of the goroutine that is not running now

repeatVars == <<reinit, globalsOwner, again, lookup, shutCalls, priorSteps>>
samplingVars == <<sampleRate, trace>>
configVars == <<sources, loaded>>
concVars == <<parked>>
auxVars == <<repeatVars, samplingVars, configVars, concVars>>

vars == <<otelVars, chainVars, auxVars>>

MetricsModes == {"pull", "push", "hybrid"}
GlobalSlots == {"TracerProvider", "MeterProvider", "TextMapPropagator"}

\* the three calls of the shutdown closure, by the name of their receiver
StepServer == "metricsServer.Shutdown"
StepTP == "tp.Shutdown"
StepMP == "mp.Shutdown"
TeardownSteps == {StepServer, StepTP, StepMP}

\* points at which InitOtel can return an error
InitFailures == {"none", "resource", "traceExporter", "prometheusExporter"}

NilError == [nil |-> TRUE, msg |-> <<>>]

\* the text each failing step contributes to errs
ErrText(step) ==
  CASE step = StepServer -> "metrics server shutdown error"
    [] step = StepTP -> "tracer provider shutdown error"
    [] step = StepMP -> "meter provider shutdown error"

\* the readers InitOtel attaches: the Prometheus exporter, whatever the mode
ReadersFor(mode) == {"pull"}

\* whether InitOtel starts the metrics HTTP server goroutine: always
StartsMetricsServer(mode) == TRUE

InitO ==
  /\ cfgMode \in MetricsModes
  /\ collectorUp \in BOOLEAN
  /\ otel = "uninit"
  /\ tpState = "none"
  /\ mpState = "none"
  /\ readers = {}
  /\ globals = {}
  /\ metricsGo = "none"
  /\ inShutdown = FALSE
  /\ bindFailed = FALSE
  /\ spansEnded = 0
  /\ spanQueue = 0
  /\ spansHanded = 0
  /\ exportFailed = FALSE
  /\ shutPc = "idle"
  /\ hasDeadline = FALSE
  /\ expired = FALSE
  /\ blocked = {}
  /\ steps = <<>>
  /\ failed = {}
  /\ errs = <<>>
  /\ result = NilError

shutVars == <<shutPc, hasDeadline, expired, blocked, steps, failed, errs, result>>
spanVars == <<spansEnded, spanQueue, spansHanded, exportFailed>>

\* InitOtel(cfg): returns (shutdown, nil) or (nil, err)
InitOtel ==
  /\ otel = "uninit"
  /\ \E f \in InitFailures :
       /\ otel' = IF f = "none" THEN "ready" ELSE "failed"
       /\ tpState' = IF f \in {"none", "prometheusExporter"} THEN "live" ELSE "none"
       /\ mpState' = IF f = "none" THEN "live" ELSE "none"
       /\ readers' = IF f = "none" THEN ReadersFor(cfgMode) ELSE {}
       /\ globals' = CASE f = "none" -> GlobalSlots
                       [] f = "prometheusExporter" -> {"TracerProvider"}
                       [] OTHER -> {}
       /\ metricsGo' = IF f = "none" /\ StartsMetricsServer(cfgMode)
                       THEN "spawned" ELSE "none"
  /\ UNCHANGED <<auxVars, chainVars, cfgMode, collectorUp, inShutdown, bindFailed, spanVars, shutVars>>

\* MetricsServerListenAndServe, had the server begun to listen without
\* looking at whether it was already shut down
MetricsServerListenAndServe_IgnoresShutdown ==
  /\ metricsGo = "spawned"
  /\ \/ metricsGo' = "serving" /\ UNCHANGED bindFailed
     \/ metricsGo' = "exited" /\ bindFailed' = TRUE
  /\ UNCHANGED <<auxVars, chainVars, cfgMode, collectorUp, otel, tpState, mpState, readers, globals,
                 inShutdown, spanVars, shutVars>>

\* the goroutine: metricsServer.ListenAndServe()
MetricsServerListenAndServe ==
  /\ metricsGo = "spawned"
  /\ \/ /\ inShutdown
        /\ metricsGo' = "exited"
        /\ UNCHANGED bindFailed
     \/ /\ ~inShutdown
        /\ \/ metricsGo' = "serving" /\ UNCHANGED bindFailed
           \/ metricsGo' = "exited" /\ bindFailed' = TRUE
  /\ UNCHANGED <<auxVars, chainVars, cfgMode, collectorUp, otel, tpState, mpState, readers, globals,
                 inShutdown, spanVars, shutVars>>

\* the scrape endpoint answers
Scrapeable == metricsGo = "serving"

\* the application ends a span: the batch span processor queues it
EndSpan ==
  /\ tpState = "live"
  /\ spansEnded < MaxSpans
  /\ spansEnded' = spansEnded + 1
  /\ spanQueue' = spanQueue + 1
  /\ UNCHANGED <<auxVars, chainVars, cfgMode, collectorUp, otel, tpState, mpState, readers, globals,
                 metricsGo, inShutdown, bindFailed, spansHanded, exportFailed,
                 shutVars>>

\* BatchExport, had the exporter's failure been allowed to stop the scrape server
BatchExport_StopsPull ==
  /\ tpState = "live"
  /\ spanQueue > 0
  /\ spansHanded' = spansHanded + spanQueue
  /\ spanQueue' = 0
  /\ exportFailed' = (exportFailed \/ ~collectorUp)
  /\ metricsGo' = IF ~collectorUp /\ metricsGo = "serving" THEN "exited" ELSE metricsGo
  /\ UNCHANGED <<auxVars, chainVars, cfgMode, collectorUp, otel, tpState, mpState, readers, globals,
                 inShutdown, bindFailed, spansEnded, shutVars>>

\* the batch span processor pushes its queue to the OTLP trace exporter
BatchExport ==
  /\ tpState = "live"
  /\ spanQueue > 0
  /\ spansHanded' = spansHanded + spanQueue
  /\ spanQueue' = 0
  /\ exportFailed' = (exportFailed \/ ~collectorUp)
  /\ UNCHANGED <<auxVars, chainVars, cfgMode, collectorUp, otel, tpState, mpState, readers, globals,
                 metricsGo, inShutdown, bindFailed, spansEnded, shutVars>>

\* the collector endpoint becomes unreachable, or reachable again
CollectorFlip ==
  /\ otel = "ready"
  /\ shutPc # "done"
  /\ collectorUp' = ~collectorUp
  /\ UNCHANGED <<auxVars, chainVars, cfgMode, otel, tpState, mpState, readers, globals, metricsGo,
                 inShutdown, bindFailed, spanVars, shutVars>>

\* the caller invokes the returned closure with a ctx; the environment decides
\* which components cannot finish on their own
Shutdown_Call ==
  /\ otel = "ready"
  /\ shutPc = "idle"
  /\ shutPc' = "server"
  /\ hasDeadline' \in BOOLEAN
  /\ blocked' \in SUBSET TeardownSteps
  /\ UNCHANGED <<auxVars, chainVars, cfgMode, collectorUp, otel, tpState, mpState, readers, globals,
                 metricsGo, inShutdown, bindFailed, spanVars, expired, steps,
                 failed, errs, result>>

\* the deadline of the ctx passes while the closure runs
ContextDeadline ==
  /\ hasDeadline
  /\ ~expired
  /\ shutPc \in {"server", "tp", "mp"}
  /\ expired' = TRUE
  /\ UNCHANGED <<auxVars, chainVars, cfgMode, collectorUp, otel, tpState, mpState, readers, globals,
                 metricsGo, inShutdown, bindFailed, spanVars, shutPc,
                 hasDeadline, blocked, steps, failed, errs, result>>

\* CanReturn, had a teardown call ignored the ctx it is given
CanReturn_IgnoresCtx(step) == step \notin blocked

\* a call that takes ctx returns once it can complete, or once ctx is done
CanReturn(step) == step \notin blocked \/ expired

\* how a teardown call can end: nil, an error of its own, or ctx.Err()
Outcomes(step) ==
  (IF step \notin blocked THEN {"ok", "err"} ELSE {})
    \cup (IF expired THEN {"timeout"} ELSE {})

\* RecordErr, had only the first failure been kept
RecordErr_FirstOnly(es, step, outcome) ==
  IF outcome # "ok" /\ Len(es) = 0 THEN Append(es, ErrText(step)) ELSE es

\* if err != nil { errs = append(errs, ...) }
RecordErr(es, step, outcome) ==
  IF outcome # "ok" THEN Append(es, ErrText(step)) ELSE es

\* if len(errs) > 0 { return fmt.Errorf(..., strings.Join(errs, "; ")) }; return nil
ShutdownResult(es) ==
  IF Len(es) > 0 THEN [nil |-> FALSE, msg |-> es] ELSE NilError

\* the bookkeeping every teardown call shares
StepDone(step, outcome, next) ==
  /\ steps' = Append(steps, step)
  /\ failed' = IF outcome # "ok" THEN failed \cup {step} ELSE failed
  /\ errs' = RecordErr(errs, step, outcome)
  /\ shutPc' = next

\* metricsServer.Shutdown(ctx): closes the listener at once, then waits for
\* the open connections
Shutdown_MetricsServer ==
  /\ shutPc = "server"
  /\ CanReturn(StepServer)
  /\ \E o \in Outcomes(StepServer) : StepDone(StepServer, o, "tp")
  /\ inShutdown' = TRUE
  /\ metricsGo' = IF metricsGo = "serving" THEN "exited" ELSE metricsGo
  /\ UNCHANGED <<auxVars, chainVars, cfgMode, collectorUp, otel, tpState, mpState, readers, globals,
                 bindFailed, spanVars, hasDeadline, expired, blocked, result>>

\* tp.Shutdown(ctx): the batch span processor drains its queue into the
\* exporter unless ctx ends first
Shutdown_TracerProvider ==
  /\ shutPc = "tp"
  /\ CanReturn(StepTP)
  /\ \E o \in Outcomes(StepTP) :
       /\ StepDone(StepTP, o, "mp")
       /\ spansHanded' = IF o = "timeout" THEN spansHanded
                         ELSE spansHanded + spanQueue
       /\ exportFailed' = (exportFailed \/ (o # "timeout" /\ spanQueue > 0 /\ ~collectorUp))
  /\ spanQueue' = 0
  /\ tpState' = "shutdown"
  /\ UNCHANGED <<auxVars, chainVars, cfgMode, collectorUp, otel, mpState, readers, globals, metricsGo,
                 inShutdown, bindFailed, spansEnded, hasDeadline, expired,
                 blocked, result>>

\* mp.Shutdown(ctx)
Shutdown_MeterProvider ==
  /\ shutPc = "mp"
  /\ CanReturn(StepMP)
  /\ \E o \in Outcomes(StepMP) : StepDone(StepMP, o, "ret")
  /\ mpState' = "shutdown"
  /\ UNCHANGED <<auxVars, chainVars, cfgMode, collectorUp, otel, tpState, readers, globals, metricsGo,
                 inShutdown, bindFailed, spanVars, hasDeadline, expired,
                 blocked, result>>

\* the closure returns the combined error, or nil
Shutdown_Return ==
  /\ shutPc = "ret"
  /\ result' = ShutdownResult(errs)
  /\ shutPc' = "done"
  /\ UNCHANGED <<auxVars, chainVars, cfgMode, collectorUp, otel, tpState, mpState, readers, globals,
                 metricsGo, inShutdown, bindFailed, spanVars, hasDeadline,
                 expired, blocked, steps, failed, errs>>

(***************************************************************************)
(* Instrumentation chains: data                                            *)
(***************************************************************************)
\* trace ids and span ids are numbered; 0 is the all-zero (invalid) id
Ids == 0..MaxId

ZeroTraceID == "00000000000000000000000000000000"
ZeroSpanID == "0000000000000000"

\* TraceID.String(): 32 lower-case hex digits
TraceIDString(id) ==
  IF id = 0 THEN ZeroTraceID
  ELSE <<"0000000000000000000000000000000a", "0000000000000000000000000000000b",
         "0000000000000000000000000000000c", "0000000000000000000000000000000d">>[id]

\* SpanID.String(): 16 lower-case hex digits
SpanIDString(id) ==
  IF id = 0 THEN ZeroSpanID
  ELSE <<"000000000000000a", "000000000000000b",
         "000000000000000c", "000000000000000d">>[id]

NoSpan == [trace |-> 0, span |-> 0]

Transports == {"http", "unary", "stream"}
HttpPaths == {"/x", "/health"}
RpcMethods == {"/pb.UserService/GetUser"}

\* values a handler panics with: a string and an error value
Payloads == {[type |-> "string", text |-> "boom"],
             [type |-> "error", text |-> "connection refused"]}
NoPayload == [type |-> "none", text |-> ""]

\* fmt.Sprintf("%v", r)
Sprintf_v(r) == r.text

\* what an HTTP handler does: answer, or panic before or after touching the response
HttpKinds == {"ok", "redirect", "below400", "badrequest", "notfound", "closed",
              "fail", "unavailable", "panic", "status_panic", "write_panic"}

\* google.golang.org/grpc/codes: the codes other than OK
ErrorCodes ==
  {"Canceled", "Unknown", "InvalidArgument", "DeadlineExceeded", "NotFound",
   "AlreadyExists", "PermissionDenied", "ResourceExhausted", "FailedPrecondition",
   "Aborted", "OutOfRange", "Unimplemented", "Internal", "Unavailable", "DataLoss",
   "Unauthenticated"}

\* what an RPC handler does: return a response, return status.Error(code, ..)
\* for a code, return an error that is no status (a plain error, or the call
\* context's ctx.Err() after cancellation or deadline), or panic
RpcKinds == {"ok", "notfound", "unknown", "ctx_canceled", "ctx_deadline", "panic"}
              \cup ErrorCodes
Panics(kind) == kind \in {"panic", "status_panic", "write_panic"}

\* middleware configurations the Gin chain is installed with
NilCfg == [isNil |-> TRUE, hasPred |-> FALSE, pred |-> {}, excluded |-> {}]
MwConfigs ==
  { NilCfg,
    [isNil |-> FALSE, hasPred |-> FALSE, pred |-> {}, excluded |-> {"/health"}],
    [isNil |-> FALSE, hasPred |-> TRUE, pred |-> {"/health"}, excluded |-> {"/x"}] }

\* shouldSkipRoute, had the excluded paths been consulted beside the predicate
shouldSkipRoute_ListAlso(c, path) ==
  IF c.isNil THEN FALSE
  ELSE IF c.hasPred THEN (path \in c.pred \/ path \in c.excluded)
  ELSE path \in c.excluded

\* (c *ObservabilityMiddlewareConfig) shouldSkipRoute(path)
shouldSkipRoute(c, path) ==
  IF c.isNil THEN FALSE
  ELSE IF c.hasPred THEN path \in c.pred
  ELSE path \in c.excluded

\* GinMiddlewareWithConfig, had it kept the order of the two-stage GinMiddleware
GinMiddleware_RecoveryFirst == <<"recovery", "tracing", "logging">>

\* the stages of each chain, outermost first
GinMiddlewareWithConfig == <<"tracing", "recovery", "logging">>
GrpcUnaryInterceptors == <<"recovery", "logging">>
GrpcStreamInterceptors == <<"recovery", "logging">>

Chain(transport) ==
  CASE transport = "http" -> GinMiddlewareWithConfig
    [] transport = "unary" -> GrpcUnaryInterceptors
    [] transport = "stream" -> GrpcStreamInterceptors

\* gin's response writer before the handler touches it
FreshWriter == [status |-> 200, written |-> FALSE, body |-> <<>>]

\* gin: c.Status(code) / WriteHeader(code): a written header cannot be changed
WriteHeader(w, code) ==
  IF w.status # code /\ w.written THEN w ELSE [w EXCEPT !.status = code]

\* gin: c.JSON / c.String: set the status, send the header, append the body
Render(w, code, obj) ==
  LET h == WriteHeader(w, code)
  IN  [h EXCEPT !.written = TRUE, !.body = Append(@, obj)]

\* gin: c.AbortWithStatusJSON(code, obj)
AbortWithStatusJSON(w, code, obj) == Render(w, code, obj)

GenericMessage == "An unexpected error occurred. Please try again later."

\* a trace id string that names a trace
ValidTraceString(t) == t # "" /\ t # ZeroTraceID
ValidSpanString(t) == t # "" /\ t # ZeroSpanID

\* ErrorResponseFor, had the recovered value been put in the message
ErrorResponseFor_LeaksPayload(path, traceID, r) ==
  [Error |-> "Internal Server Error",
   Message |-> Sprintf_v(r),
   TraceID |-> IF ValidTraceString(traceID) THEN traceID ELSE "",
   Path |-> path]

\* ErrorResponseFor, had the path been left out
ErrorResponseFor_NoPath(path, traceID, r) ==
  [Error |-> "Internal Server Error",
   Message |-> GenericMessage,
   TraceID |-> IF ValidTraceString(traceID) THEN traceID ELSE "",
   Path |-> ""]

\* errorResp := ErrorResponse{...}; if traceID valid { errorResp.TraceID = traceID }
ErrorResponseFor(path, traceID, r) ==
  [Error |-> "Internal Server Error",
   Message |-> GenericMessage,
   TraceID |-> IF ValidTraceString(traceID) THEN traceID ELSE "",
   Path |-> path]

\* MarshalErrorResponse, had TraceID been tagged json:"-"
MarshalErrorResponse_DropsTraceID(e) ==
  LET keys == {"error", "message"}
                \cup (IF e.Path # "" THEN {"path"} ELSE {})
  IN  [k \in keys |->
         CASE k = "error" -> e.Error
           [] k = "message" -> e.Message
           [] k = "path" -> e.Path]

\* encoding/json of ErrorResponse: trace_id and path are omitempty
MarshalErrorResponse(e) ==
  LET keys == {"error", "message"}
                \cup (IF e.TraceID # "" THEN {"trace_id"} ELSE {})
                \cup (IF e.Path # "" THEN {"path"} ELSE {})
  IN  [k \in keys |->
         CASE k = "error" -> e.Error
           [] k = "message" -> e.Message
           [] k = "trace_id" -> e.TraceID
           [] k = "path" -> e.Path]

\* the body an ordinary handler writes
HandlerBody == [k \in {"data"} |-> "handler"]
PartialBody == [k \in {"data"} |-> "partial"]

\* HttpLevel, had the server-error bound been exclusive
HttpLevel_Above500(statusCode) ==
  IF statusCode > 500 THEN "error"
  ELSE IF statusCode >= 400 THEN "warn"
  ELSE "info"

\* severity of the request record, by HTTP status
HttpLevel(statusCode) ==
  IF statusCode >= 500 THEN "error"
  ELSE IF statusCode >= 400 THEN "warn"
  ELSE "info"

\* GrpcLevel, had OutOfRange been left out of the client-fault case
GrpcLevel_NoOutOfRange(code) ==
  IF code = "OK" THEN "info"
  ELSE IF code \in {"Canceled", "InvalidArgument", "NotFound", "AlreadyExists",
                    "PermissionDenied", "Unauthenticated", "FailedPrecondition"}
       THEN "warn"
  ELSE "error"

\* severity of the request record, by gRPC code
GrpcLevel(code) ==
  IF code = "OK" THEN "info"
  ELSE IF code \in {"Canceled", "InvalidArgument", "NotFound", "AlreadyExists",
                    "PermissionDenied", "Unauthenticated", "FailedPrecondition",
                    "OutOfRange"} THEN "warn"
  ELSE "error"

\* "Add trace context if present"
TraceFields(traceID, spanID) ==
  (IF ValidTraceString(traceID) THEN {<<"trace_id", traceID>>} ELSE {})
    \cup (IF ValidSpanString(spanID) THEN {<<"span_id", spanID>>} ELSE {})

\* status.Code(err): OK for a nil error, the code of a status error, Unknown
\* for any other error
StatusCode(r) ==
  IF r.errType = "nil" THEN "OK"
  ELSE IF r.errType = "status" THEN r.code
  ELSE "Unknown"

NoRpc == [resp |-> "nil", errType |-> "nil", code |-> "OK", msg |-> "", trailer |-> ""]

IdleRq ==
  [transport |-> "http", path |-> "", method |-> "", upstream |-> NoSpan,
   ambient |-> NoSpan, idx |-> 0, dir |-> "idle", kind |-> "", payload |-> NoPayload,
   spansStarted |-> 0, spansEnded |-> 0, w |-> FreshWriter, xTraceID |-> "",
   logTrace |-> "", logSpan |-> "", logs |-> <<>>, events |-> <<>>,
   rpc |-> NoRpc, escaped |-> FALSE, thrown |-> NoPayload, decisions |-> {},
   started |-> NoSpan, handlerCtx |-> NoSpan]

NoLast == [valid |-> FALSE, transport |-> "http", path |-> "", method |-> "",
           kind |-> "", ambient |-> NoSpan, payload |-> NoPayload,
           w |-> FreshWriter, xTraceID |-> "", rpc |-> NoRpc]

InitC ==
  /\ mwCfg \in MwConfigs
  /\ rq = IdleRq
  /\ last = NoLast

\* the process-wide providers the chain finds: InitOtel not called, failed
\* after installing the tracer provider, or succeeded
InitGlobals ==
  /\ cfgMode = "pull"
  /\ collectorUp = TRUE
  /\ \/ otel = "uninit" /\ tpState = "none" /\ mpState = "none" /\ readers = {}
        /\ globals = {} /\ metricsGo = "none"
     \/ otel = "failed" /\ tpState = "live" /\ mpState = "none" /\ readers = {}
        /\ globals = {"TracerProvider"} /\ metricsGo = "none"
     \/ otel = "ready" /\ tpState = "live" /\ mpState = "live"
        /\ readers = ReadersFor(cfgMode) /\ globals = GlobalSlots
        /\ metricsGo = "serving"
  /\ inShutdown = FALSE
  /\ bindFailed = FALSE
  /\ spansEnded = 0
  /\ spanQueue = 0
  /\ spansHanded = 0
  /\ exportFailed = FALSE
  /\ shutPc = "idle"
  /\ hasDeadline = FALSE
  /\ expired = FALSE
  /\ blocked = {}
  /\ steps = <<>>
  /\ failed = {}
  /\ errs = <<>>
  /\ result = NilError

Push(ev) == Append(rq.events, ev)
Stage == IF rq.idx \in DOMAIN Chain(rq.transport) THEN Chain(rq.transport)[rq.idx] ELSE "handler"
Skipped == rq.transport = "http" /\ shouldSkipRoute(mwCfg, rq.path)

(***************************************************************************)
(* Instrumentation chains: one request at a time through its chain         *)
(***************************************************************************)
\* trace contexts a caller can send: none, or a valid remote span context
UpstreamContexts == {NoSpan} \cup {[trace |-> i, span |-> i] : i \in 1..MaxId}

\* span contexts an RPC's ctx can carry when the interceptors run: whatever
\* the layer outside them (stats handler, other interceptors) put there; a
\* trace.SpanContext holds its trace id and span id independently
AmbientContexts ==
  UpstreamContexts \cup {[trace |-> 1, span |-> 0], [trace |-> 0, span |-> 1]}

\* leaving a stage: back to the stage outside it, or out of the chain
Pop(r) ==
  IF r.idx = 1
  THEN [r EXCEPT !.idx = 0, !.dir = "done", !.escaped = (r.dir = "panic")]
  ELSE [r EXCEPT !.idx = @ - 1]

\* a request of transport t, with its path and the trace context it carries
Arrive(t) ==
  \E p \in (IF t = "http" THEN HttpPaths ELSE RpcMethods),
     up \in (IF t = "http" THEN UpstreamContexts ELSE AmbientContexts) :
    rq' = [IdleRq EXCEPT !.transport = t, !.path = p,
                         !.method = IF t = "http" THEN "GET" ELSE "",
                         !.upstream = up,
                         !.ambient = IF t = "http" THEN NoSpan ELSE up,
                         !.idx = 1, !.dir = "down"]

\* a request reaches the chain of its transport
Request_Arrive ==
  /\ rq.dir = "idle"
  /\ \E t \in Transports : Arrive(t)
  /\ UNCHANGED <<auxVars, otelVars, mwCfg, last>>

\* propagator.Extract: the W3C propagator InitOtel installs reads the
\* traceparent header; the default propagator reads nothing
Extract(current, inbound) ==
  IF "TextMapPropagator" \in globals /\ inbound.trace # 0 THEN inbound ELSE current

\* tracer.Start(ctx, name): the SDK tracer starts a child of the parent in
\* ctx, or a root with a fresh trace id; the default (no-op) tracer hands
\* back the span context already in ctx
TracerStart(parent) ==
  IF "TracerProvider" \in globals
  THEN { [trace |-> t, span |-> s] :
           t \in (IF parent.trace # 0 THEN {parent.trace} ELSE 1..MaxId),
           s \in (1..MaxId) \ {parent.span} }
  ELSE {parent}

\* GinTracingWithConfig_Enter, had the header been set without HasTraceID()
GinTracingWithConfig_Enter_AlwaysHeader ==
  /\ rq.transport = "http" /\ rq.dir = "down" /\ Stage = "tracing"
  /\ IF Skipped
     THEN rq' = [rq EXCEPT !.idx = @ + 1, !.events = Push("tracing.enter"),
                           !.decisions = @ \cup {<<"tracing", TRUE>>}]
     ELSE \E sp \in TracerStart(Extract(rq.ambient, rq.upstream)) :
            rq' = [rq EXCEPT !.idx = @ + 1,
                             !.decisions = @ \cup {<<"tracing", FALSE>>},
                             !.ambient = sp,
                             !.started = sp,
                             !.spansStarted = @ + 1,
                             !.xTraceID = TraceIDString(sp.trace),
                             !.events = Push("tracing.enter") \o <<"span.start">>]
  /\ UNCHANGED <<auxVars, otelVars, mwCfg, last>>

\* GinTracingWithConfig_Enter, had span.End() been called without defer
GinTracingWithConfig_Enter_EndsEarly ==
  /\ rq.transport = "http" /\ rq.dir = "down" /\ Stage = "tracing"
  /\ IF Skipped
     THEN rq' = [rq EXCEPT !.idx = @ + 1, !.events = Push("tracing.enter"),
                           !.decisions = @ \cup {<<"tracing", TRUE>>}]
     ELSE \E sp \in TracerStart(Extract(rq.ambient, rq.upstream)) :
            rq' = [rq EXCEPT !.idx = @ + 1,
                             !.decisions = @ \cup {<<"tracing", FALSE>>},
                             !.ambient = sp,
                             !.started = sp,
                             !.spansStarted = @ + 1,
                             !.spansEnded = @ + 1,
                             !.xTraceID = IF sp.trace # 0 THEN TraceIDString(sp.trace) ELSE @,
                             !.events = Push("tracing.enter") \o <<"span.start", "span.end">>]
  /\ UNCHANGED <<auxVars, otelVars, mwCfg, last>>

\* GinTracingWithConfig: up to c.Next()
GinTracingWithConfig_Enter ==
  /\ rq.transport = "http" /\ rq.dir = "down" /\ Stage = "tracing"
  /\ IF Skipped
     THEN rq' = [rq EXCEPT !.idx = @ + 1, !.events = Push("tracing.enter"),
                           !.decisions = @ \cup {<<"tracing", TRUE>>}]
     ELSE \E sp \in TracerStart(Extract(rq.ambient, rq.upstream)) :
            rq' = [rq EXCEPT !.idx = @ + 1,
                             !.decisions = @ \cup {<<"tracing", FALSE>>},
                             !.ambient = sp,
                             !.started = sp,
                             !.spansStarted = @ + 1,
                             !.xTraceID = IF sp.trace # 0 THEN TraceIDString(sp.trace) ELSE @,
                             !.events = Push("tracing.enter") \o <<"span.start">>]
  /\ UNCHANGED <<auxVars, otelVars, mwCfg, last>>

\* GinTracingWithConfig: c.Next() returned or panicked; the deferred span.End()
GinTracingWithConfig_Return ==
  /\ rq.transport = "http" /\ rq.dir \in {"up", "panic"} /\ Stage = "tracing"
  /\ IF rq.spansStarted > rq.spansEnded
     THEN rq' = Pop([rq EXCEPT !.spansEnded = @ + 1, !.events = Push("span.end")])
     ELSE rq' = Pop(rq)
  /\ UNCHANGED <<auxVars, otelVars, mwCfg, last>>

\* GinRecoveryWithConfig: the deferred recover is installed, then c.Next()
GinRecoveryWithConfig_Enter ==
  /\ rq.transport = "http" /\ rq.dir = "down" /\ Stage = "recovery"
  /\ rq' = [rq EXCEPT !.idx = @ + 1, !.events = Push("recovery.guard")]
  /\ UNCHANGED <<auxVars, otelVars, mwCfg, last>>

\* GinRecoveryWithConfig: c.Next() returned; recover() yields nil
GinRecoveryWithConfig_Return ==
  /\ rq.transport = "http" /\ rq.dir = "up" /\ Stage = "recovery"
  /\ rq' = Pop(rq)
  /\ UNCHANGED <<auxVars, otelVars, mwCfg, last>>

\* PanicRecord, had the stack been left out of the record
PanicRecord_NoStack(msg, r, traceID, path, method) ==
  [level |-> "error", msg |-> msg, status |-> 0, method |-> method, path |-> path,
   error |-> Sprintf_v(r), stack |-> FALSE, fields |-> {<<"trace_id", traceID>>}]

\* the record logger.Error("Panic recovered", ...) writes
PanicRecord(msg, r, traceID, path, method) ==
  [level |-> "error", msg |-> msg, status |-> 0, method |-> method, path |-> path,
   error |-> Sprintf_v(r), stack |-> TRUE, fields |-> {<<"trace_id", traceID>>}]

\* GinRecoveryWithConfig_Recover, had the skip check been left out
GinRecoveryWithConfig_Recover_IgnoresSkip ==
  /\ rq.transport = "http" /\ rq.dir = "panic" /\ Stage = "recovery"
  /\ LET traceID == TraceIDString(rq.ambient.trace)
         errorResp == ErrorResponseFor(rq.path, traceID, rq.payload)
     IN  rq' = Pop([rq EXCEPT
                 !.dir = "up",
                 !.decisions = @ \cup {<<"recovery", FALSE>>},
                 !.logs = Append(@, PanicRecord("Panic recovered", rq.payload,
                                                traceID, rq.path, rq.method)),
                 !.w = AbortWithStatusJSON(@, 500, MarshalErrorResponse(errorResp)),
                 !.events = Push("panic.recovered")])
  /\ UNCHANGED <<auxVars, otelVars, mwCfg, last>>

\* GinRecoveryWithConfig: the deferred function with a recovered panic
GinRecoveryWithConfig_Recover ==
  /\ rq.transport = "http" /\ rq.dir = "panic" /\ Stage = "recovery"
  /\ IF Skipped
     THEN rq' = Pop([rq EXCEPT !.payload = rq.payload,
                               !.decisions = @ \cup {<<"recovery", TRUE>>},
                               !.events = Push("panic.reraised")])
     ELSE LET traceID == TraceIDString(rq.ambient.trace)
              errorResp == ErrorResponseFor(rq.path, traceID, rq.payload)
          IN  rq' = Pop([rq EXCEPT
                      !.dir = "up",
                      !.decisions = @ \cup {<<"recovery", FALSE>>},
                      !.logs = Append(@, PanicRecord("Panic recovered", rq.payload,
                                                     traceID, rq.path, rq.method)),
                      !.w = AbortWithStatusJSON(@, 500, MarshalErrorResponse(errorResp)),
                      !.events = Push("panic.recovered")])
  /\ UNCHANGED <<auxVars, otelVars, mwCfg, last>>

\* GinLoggerWithConfig: start time and trace context are taken, then c.Next()
GinLoggerWithConfig_Enter ==
  /\ rq.transport = "http" /\ rq.dir = "down" /\ Stage = "logging"
  /\ IF Skipped
     THEN rq' = [rq EXCEPT !.idx = @ + 1, !.events = Push("logging.enter"),
                           !.decisions = @ \cup {<<"logging", TRUE>>}]
     ELSE rq' = [rq EXCEPT !.idx = @ + 1,
                           !.decisions = @ \cup {<<"logging", FALSE>>},
                           !.logTrace = TraceIDString(rq.ambient.trace),
                           !.logSpan = SpanIDString(rq.ambient.span),
                           !.events = Push("logging.enter") \o <<"logging.start">>]
  /\ UNCHANGED <<auxVars, otelVars, mwCfg, last>>

\* the record GinLoggerWithConfig writes after c.Next()
HttpRecord(statusCode, method, path, traceID, spanID) ==
  [level |-> HttpLevel(statusCode),
   msg |-> CASE HttpLevel(statusCode) = "error" -> "HTTP Server Error"
             [] HttpLevel(statusCode) = "warn" -> "HTTP Client Error"
             [] OTHER -> "HTTP Request",
   status |-> statusCode, method |-> method, path |-> path, error |-> "",
   stack |-> FALSE, fields |-> TraceFields(traceID, spanID)]

\* GinLoggerWithConfig_Return, had the trace context been read from
\* c.Request.Context() after c.Next()
GinLoggerWithConfig_Return_ReadsAfter ==
  /\ rq.transport = "http" /\ rq.dir = "up" /\ Stage = "logging"
  /\ IF Skipped
     THEN rq' = Pop(rq)
     ELSE rq' = Pop([rq EXCEPT
                  !.logs = Append(@, HttpRecord(rq.w.status, rq.method, rq.path,
                                                TraceIDString(rq.ambient.trace),
                                                SpanIDString(rq.ambient.span))),
                  !.events = Push("log")])
  /\ UNCHANGED <<auxVars, otelVars, mwCfg, last>>

\* GinLoggerWithConfig: c.Next() returned
GinLoggerWithConfig_Return ==
  /\ rq.transport = "http" /\ rq.dir = "up" /\ Stage = "logging"
  /\ IF Skipped
     THEN rq' = Pop(rq)
     ELSE rq' = Pop([rq EXCEPT
                  !.logs = Append(@, HttpRecord(rq.w.status, rq.method, rq.path,
                                                rq.logTrace, rq.logSpan)),
                  !.events = Push("log")])
  /\ UNCHANGED <<auxVars, otelVars, mwCfg, last>>

\* GinLoggerWithConfig_Unwind, had the request record been written in a defer
GinLoggerWithConfig_Unwind_Logs ==
  /\ rq.transport = "http" /\ rq.dir = "panic" /\ Stage = "logging"
  /\ IF Skipped
     THEN rq' = Pop(rq)
     ELSE rq' = Pop([rq EXCEPT
                  !.logs = Append(@, HttpRecord(rq.w.status, rq.method, rq.path,
                                                rq.logTrace, rq.logSpan)),
                  !.events = Push("log")])
  /\ UNCHANGED <<auxVars, otelVars, mwCfg, last>>

\* GinLoggerWithConfig: a panic from c.Next() passes through; nothing is deferred
GinLoggerWithConfig_Unwind ==
  /\ rq.transport = "http" /\ rq.dir = "panic" /\ Stage = "logging"
  /\ rq' = Pop(rq)
  /\ UNCHANGED <<auxVars, otelVars, mwCfg, last>>

\* what each kind of HTTP handler does to the response writer
HandlerWrites(w, kind) ==
  CASE kind = "ok" -> Render(w, 200, HandlerBody)
    [] kind = "redirect" -> Render(w, 302, HandlerBody)
    [] kind = "below400" -> Render(w, 399, HandlerBody)
    [] kind = "badrequest" -> Render(w, 400, HandlerBody)
    [] kind = "notfound" -> Render(w, 404, HandlerBody)
    [] kind = "closed" -> Render(w, 499, HandlerBody)
    [] kind = "fail" -> Render(w, 500, HandlerBody)
    [] kind = "unavailable" -> Render(w, 503, HandlerBody)
    [] kind = "panic" -> w
    [] kind = "status_panic" -> WriteHeader(w, 202)
    [] kind = "write_panic" -> Render(w, 200, PartialBody)

\* the request once its route's handler has done k, panicking with pl
Served(k, pl) ==
  [rq EXCEPT !.kind = k, !.payload = pl, !.thrown = pl,
             !.w = HandlerWrites(@, k),
             !.dir = IF Panics(k) THEN "panic" ELSE "up",
             !.idx = @ - 1,
             !.events = Push("handler")]

\* the route's handler does one of the things in kinds
Serve(kinds) ==
  /\ rq.transport = "http" /\ rq.dir = "down" /\ Stage = "handler"
  /\ \E k \in kinds :
       \E pl \in (IF Panics(k) THEN Payloads ELSE {NoPayload}) :
         rq' = Served(k, pl)

\* what the handlers that touch the trace context go on to do
TracedKinds == {"ok", "panic"}

\* contexts a Gin handler can put in c.Request: one carrying a span it
\* started from the request's context, or one carrying no span
HandlerContexts(cur) == TracerStart(cur) \cup {NoSpan}

\* the route's handler starts a span or makes a new context, stores it with
\* c.Request = c.Request.WithContext(ctx), and then answers or panics
GinHandler_ReplacesContext ==
  /\ rq.transport = "http" /\ rq.dir = "down" /\ Stage = "handler"
  /\ \E k \in TracedKinds, hc \in HandlerContexts(rq.ambient) :
       \E pl \in (IF Panics(k) THEN Payloads ELSE {NoPayload}) :
         rq' = [Served(k, pl) EXCEPT !.handlerCtx = hc, !.ambient = hc]
  /\ UNCHANGED <<auxVars, otelVars, mwCfg, last>>

\* the route's handler runs
GinHandler ==
  /\ Serve(HttpKinds)
  /\ UNCHANGED <<auxVars, otelVars, mwCfg, last>>

IsRpc == rq.transport \in {"unary", "stream"}

\* GrpcUnaryRecoveryInterceptor / GrpcStreamRecoveryInterceptor: the deferred
\* recover is installed, then the handler is called
GrpcRecoveryInterceptor_Enter ==
  /\ IsRpc /\ rq.dir = "down" /\ Stage = "recovery"
  /\ rq' = [rq EXCEPT !.idx = @ + 1, !.events = Push("recovery.guard")]
  /\ UNCHANGED <<auxVars, otelVars, mwCfg, last>>

\* the handler returned: resp and err pass through
GrpcRecoveryInterceptor_Return ==
  /\ IsRpc /\ rq.dir = "up" /\ Stage = "recovery"
  /\ rq' = Pop(rq)
  /\ UNCHANGED <<auxVars, otelVars, mwCfg, last>>

\* GrpcRecovered, had the trailer been set without looking at the trace id
GrpcRecovered_AlwaysTrailer(traceID, r) ==
  [resp |-> "nil", errType |-> "status", code |-> "Internal",
   msg |-> "Internal server error occurred",
   trailer |-> traceID]

\* err = status.Errorf(codes.Internal, "Internal server error occurred"); resp
\* keeps its zero value; the trailer carries a valid trace id
GrpcRecovered(traceID, r) ==
  [resp |-> "nil", errType |-> "status", code |-> "Internal",
   msg |-> "Internal server error occurred",
   trailer |-> IF ValidTraceString(traceID) THEN traceID ELSE ""]

\* the deferred function with a recovered panic
GrpcRecoveryInterceptor_Recover ==
  /\ IsRpc /\ rq.dir = "panic" /\ Stage = "recovery"
  /\ LET traceID == TraceIDString(rq.ambient.trace)
         msg == IF rq.transport = "unary" THEN "Panic recovered in gRPC handler"
                ELSE "Panic recovered in gRPC stream handler"
     IN  rq' = Pop([rq EXCEPT
                 !.dir = "up",
                 !.logs = Append(@, PanicRecord(msg, rq.payload, traceID, "", rq.path)),
                 !.rpc = GrpcRecovered(traceID, rq.payload),
                 !.events = Push("panic.recovered")])
  /\ UNCHANGED <<auxVars, otelVars, mwCfg, last>>

\* GrpcUnaryServerInterceptor / GrpcStreamServerInterceptor: start time and
\* trace context are taken, then the handler is called
GrpcServerInterceptor_Enter ==
  /\ IsRpc /\ rq.dir = "down" /\ Stage = "logging"
  /\ rq' = [rq EXCEPT !.idx = @ + 1,
                      !.logTrace = TraceIDString(rq.ambient.trace),
                      !.logSpan = SpanIDString(rq.ambient.span),
                      !.events = Push("logging.enter") \o <<"logging.start">>]
  /\ UNCHANGED <<auxVars, otelVars, mwCfg, last>>

\* the record the logging interceptor writes after the handler
GrpcRecord(transport, code, errMsg, fullMethod, traceID, spanID) ==
  [level |-> GrpcLevel(code),
   msg |-> CASE GrpcLevel(code) = "info" ->
                  (IF transport = "unary" THEN "gRPC Request" ELSE "gRPC Stream Request")
             [] GrpcLevel(code) = "warn" ->
                  (IF transport = "unary" THEN "gRPC Client Error"
                   ELSE "gRPC Stream Client Error")
             [] OTHER ->
                  (IF transport = "unary" THEN "gRPC Server Error"
                   ELSE "gRPC Stream Server Error"),
   status |-> 0, method |-> fullMethod, path |-> "", error |-> errMsg,
   stack |-> FALSE,
   fields |-> TraceFields(traceID, spanID) \cup {<<"grpc_code", code>>}]

\* GrpcServerInterceptor_Return, had the handler's error been logged and not
\* returned
GrpcServerInterceptor_Return_DropsErr ==
  /\ IsRpc /\ rq.dir = "up" /\ Stage = "logging"
  /\ rq' = Pop([rq EXCEPT
              !.logs = Append(@, GrpcRecord(rq.transport, StatusCode(rq.rpc), rq.rpc.msg,
                                            rq.path, rq.logTrace, rq.logSpan)),
              !.rpc = [@ EXCEPT !.errType = "nil", !.code = "OK", !.msg = ""],
              !.events = Push("log")])
  /\ UNCHANGED <<auxVars, otelVars, mwCfg, last>>

\* the handler returned: the record is written, resp and err pass through
GrpcServerInterceptor_Return ==
  /\ IsRpc /\ rq.dir = "up" /\ Stage = "logging"
  /\ rq' = Pop([rq EXCEPT
              !.logs = Append(@, GrpcRecord(rq.transport, StatusCode(rq.rpc), rq.rpc.msg,
                                            rq.path, rq.logTrace, rq.logSpan)),
              !.events = Push("log")])
  /\ UNCHANGED <<auxVars, otelVars, mwCfg, last>>

\* a panic from the handler passes through; nothing is deferred
GrpcServerInterceptor_Unwind ==
  /\ IsRpc /\ rq.dir = "panic" /\ Stage = "logging"
  /\ rq' = Pop(rq)
  /\ UNCHANGED <<auxVars, otelVars, mwCfg, last>>

\* what each kind of RPC handler returns
HandlerReturns(kind) ==
  CASE kind = "ok" ->
         [resp |-> "response", errType |-> "nil", code |-> "OK", msg |-> "",
          trailer |-> ""]
    [] kind = "notfound" ->
         [resp |-> "nil", errType |-> "status", code |-> "NotFound",
          msg |-> "user not found", trailer |-> ""]
    [] kind = "unknown" ->
         [resp |-> "nil", errType |-> "plain", code |-> "", msg |-> "plain error",
          trailer |-> ""]
    [] kind = "ctx_canceled" ->
         [resp |-> "nil", errType |-> "context", code |-> "",
          msg |-> "context canceled", trailer |-> ""]
    [] kind = "ctx_deadline" ->
         [resp |-> "nil", errType |-> "context", code |-> "",
          msg |-> "context deadline exceeded", trailer |-> ""]
    [] kind = "panic" -> NoRpc
    [] kind \in ErrorCodes ->
         [resp |-> "nil", errType |-> "status", code |-> kind, msg |-> "status error",
          trailer |-> ""]

\* the call once the service's method has done k, panicking with pl
GrpcServed(k, pl) ==
  [rq EXCEPT !.kind = k, !.payload = pl, !.thrown = pl,
             !.rpc = HandlerReturns(k),
             !.dir = IF Panics(k) THEN "panic" ELSE "up",
             !.idx = @ - 1,
             !.events = Push("handler")]

\* the service's method runs
GrpcHandler ==
  /\ IsRpc /\ rq.dir = "down" /\ Stage = "handler"
  /\ \E k \in RpcKinds :
       \E pl \in (IF Panics(k) THEN Payloads ELSE {NoPayload}) :
         rq' = GrpcServed(k, pl)
  /\ UNCHANGED <<auxVars, otelVars, mwCfg, last>>

\* the service's method starts a span from its ctx and then returns or
\* panics; the new ctx is a local of the method, the interceptors keep theirs
GrpcHandler_StartsSpan ==
  /\ IsRpc /\ rq.dir = "down" /\ Stage = "handler"
  /\ \E k \in TracedKinds, hc \in TracerStart(rq.ambient) :
       \E pl \in (IF Panics(k) THEN Payloads ELSE {NoPayload}) :
         rq' = [GrpcServed(k, pl) EXCEPT !.handlerCtx = hc]
  /\ UNCHANGED <<auxVars, otelVars, mwCfg, last>>

\* the request's panic was turned into a response by the recovery stage
Recovered(r) == Panics(r.kind) /\ ~r.escaped

\* what the caller of a request sees, and what the request was
Summary(r) ==
  [valid |-> TRUE, transport |-> r.transport, path |-> r.path, method |-> r.method,
   kind |-> r.kind, ambient |-> r.ambient, payload |-> r.payload,
   w |-> r.w, xTraceID |-> r.xTraceID, rpc |-> r.rpc]

\* the transport sends the response; the request's state is dropped
Request_Complete ==
  /\ rq.dir = "done"
  /\ last' = IF Recovered(rq) THEN Summary(rq) ELSE last
  /\ rq' = IdleRq
  /\ UNCHANGED <<auxVars, otelVars, mwCfg>>

(***************************************************************************)
(* Repeated calls: a further InitOtel, GetTracer / GetMeter, and a further *)
(* invocation of the shutdown closure                                      *)
(***************************************************************************)
\* further InitOtel calls, and further shutdown invocations, a process makes
MaxReinit == 1
MaxShutCalls == 1

NoAgain == [made |-> FALSE, failure |-> "none", tp |-> "none", mp |-> "none",
            metricsGo |-> "none"]
NoLookup == [what |-> "none", provider |-> "none", owner |-> 0]

InitRepeat ==
  /\ reinit = 0
  /\ globalsOwner = [s \in GlobalSlots |-> 0]
  /\ again = NoAgain
  /\ lookup = NoLookup
  /\ shutCalls = 0
  /\ priorSteps = <<>>

\* the otel.Set... calls InitOtel reaches before it returns with failure f
Installed(f) ==
  CASE f = "none" -> GlobalSlots
    [] f = "prometheusExporter" -> {"TracerProvider"}
    [] OTHER -> {}

\* InitOtel(cfg) called again in the same process: nothing in it looks at an
\* earlier call; it builds new providers and a new metrics server and
\* registers them with otel.SetTracerProvider / SetMeterProvider /
\* SetTextMapPropagator
InitOtel_Again ==
  /\ otel # "uninit"
  /\ reinit < MaxReinit
  /\ reinit' = reinit + 1
  /\ \E f \in InitFailures :
       /\ globals' = globals \cup Installed(f)
       /\ globalsOwner' = [s \in GlobalSlots |->
                             IF s \in Installed(f) THEN reinit + 1 ELSE globalsOwner[s]]
       /\ again' = [made |-> TRUE, failure |-> f,
                    tp |-> IF Installed(f) # {} THEN "live" ELSE "none",
                    mp |-> IF f = "none" THEN "live" ELSE "none",
                    metricsGo |-> IF f = "none" /\ StartsMetricsServer(cfgMode)
                                  THEN "spawned" ELSE "none"]
  /\ UNCHANGED <<concVars, chainVars, samplingVars, configVars, lookup, shutCalls, priorSteps,
                 cfgMode, collectorUp, otel, tpState, mpState, readers, metricsGo,
                 inShutdown, bindFailed, spanVars, shutVars>>

\* GetTracer(name): otel.Tracer(name), a lookup in the global tracer provider
GetTracer ==
  /\ lookup' = [what |-> "tracer",
                provider |-> IF "TracerProvider" \in globals THEN "sdk" ELSE "default",
                owner |-> globalsOwner["TracerProvider"]]
  /\ lookup' # lookup
  /\ UNCHANGED <<concVars, otelVars, chainVars, samplingVars, configVars, reinit, globalsOwner,
                 again, shutCalls, priorSteps>>

\* GetMeter(name): otel.Meter(name), a lookup in the global meter provider
GetMeter ==
  /\ lookup' = [what |-> "meter",
                provider |-> IF "MeterProvider" \in globals THEN "sdk" ELSE "default",
                owner |-> globalsOwner["MeterProvider"]]
  /\ lookup' # lookup
  /\ UNCHANGED <<concVars, otelVars, chainVars, samplingVars, configVars, reinit, globalsOwner,
                 again, shutCalls, priorSteps>>

\* the caller invokes the returned closure once more: the closure keeps no
\* record of having run; errs is a fresh local
Shutdown_CallAgain ==
  /\ otel = "ready"
  /\ shutPc = "done"
  /\ shutCalls < MaxShutCalls
  /\ shutCalls' = shutCalls + 1
  /\ priorSteps' = priorSteps \o steps
  /\ shutPc' = "server"
  /\ hasDeadline' \in BOOLEAN
  /\ expired' = FALSE
  /\ blocked' \in SUBSET TeardownSteps
  /\ steps' = <<>>
  /\ failed' = {}
  /\ errs' = <<>>
  /\ result' = NilError
  /\ UNCHANGED <<concVars, chainVars, samplingVars, configVars, reinit, globalsOwner, again,
                 lookup, cfgMode, collectorUp, otel, tpState, mpState, readers,
                 globals, metricsGo, inShutdown, bindFailed, spanVars>>

(***************************************************************************)
(* The sampler InitOtel gives the tracer provider                          *)
(***************************************************************************)
\* spans started for one trace in this process
MaxDepth == 3

\* cfg.OtelTracingSampleRate, in percent
SampleRates == {0, 50, 100}

NoTrace == [phase |-> "idle", id |-> 0, remote |-> FALSE, parentSampled |-> FALSE,
            spans |-> <<>>]

InitSampling0 ==
  /\ sampleRate = 100
  /\ trace = NoTrace

\* TraceIDRatioBased(fraction).ShouldSample: fraction >= 1 always samples;
\* otherwise the trace id's low bits are compared with fraction * 2^63, so
\* fraction <= 0 never samples; the parent span context is not looked at
ShouldSample(rate, traceId) ==
  IF rate >= 100 THEN TRUE
  ELSE traceId * 100 < rate * (MaxId + 1)

\* what the inbound request carries: no traceparent, or a trace id with the
\* sampled flag of the upstream span
Inbound ==
  {[remote |-> FALSE, id |-> 0, sampled |-> FALSE]}
    \cup {[remote |-> TRUE, id |-> i, sampled |-> b] : i \in 1..MaxId, b \in BOOLEAN}

\* GinTracingWithConfig: propagator.Extract, then tracer.Start: the span
\* continues the upstream trace or starts a trace with a new id; the sampler
\* decides
Sampling_ServerSpan ==
  /\ trace.phase = "idle"
  /\ \E up \in Inbound :
       \E id \in (IF up.remote THEN {up.id} ELSE 1..MaxId) :
         trace' = [phase |-> "open", id |-> id, remote |-> up.remote,
                   parentSampled |-> up.sampled,
                   spans |-> <<[sampled |-> ShouldSample(sampleRate, id),
                                ended |-> FALSE]>>]
  /\ UNCHANGED <<concVars, otelVars, chainVars, repeatVars, configVars, sampleRate>>

\* the handler starts a span in the request's context (GetTracer(..).Start):
\* a child in the same trace; the sampler decides
Sampling_ChildSpan ==
  /\ trace.phase = "open"
  /\ Len(trace.spans) < MaxDepth
  /\ \E i \in DOMAIN trace.spans : ~trace.spans[i].ended
  /\ trace' = [trace EXCEPT !.spans =
                 Append(@, [sampled |-> ShouldSample(sampleRate, trace.id),
                            ended |-> FALSE])]
  /\ UNCHANGED <<concVars, otelVars, chainVars, repeatVars, configVars, sampleRate>>

\* defer span.End(): the innermost open span ends
Sampling_EndSpan ==
  /\ trace.phase = "open"
  /\ \E i \in DOMAIN trace.spans :
       /\ ~trace.spans[i].ended
       /\ \A j \in DOMAIN trace.spans : j > i => trace.spans[j].ended
       /\ trace' = [trace EXCEPT !.spans[i].ended = TRUE]
  /\ UNCHANGED <<concVars, otelVars, chainVars, repeatVars, configVars, sampleRate>>

\* the request is over; the next one can arrive
Sampling_Done ==
  /\ trace.phase = "open"
  /\ \A i \in DOMAIN trace.spans : trace.spans[i].ended
  /\ trace' = NoTrace
  /\ UNCHANGED <<concVars, otelVars, chainVars, repeatVars, configVars, sampleRate>>

(***************************************************************************)
(* LoadCfg: resolution of the configuration from its sources               *)
(***************************************************************************)
LogLevels == {"debug", "info", "warn", "error"}
DefaultMetricsPort == 9090

\* a source that sets nothing: "" and 0 stand for a field the source leaves out
Unset == [ServiceName |-> "", LogLevel |-> "", MetricsMode |-> "", MetricsPort |-> 0]
NoSources == [ldflags |-> Unset, file |-> Unset, env |-> Unset]
NotLoaded == [done |-> FALSE, ok |-> FALSE, cfg |-> Unset, errors |-> {}]

InitConfig0 ==
  /\ sources = NoSources
  /\ loaded = NotLoaded

\* what the build (-ldflags -X ...ServiceName=), the .env file and the
\* process environment can hold
LdflagsSettings == {[Unset EXCEPT !.ServiceName = n] : n \in {"", "ld-svc"}}
FileSettings ==
  [ServiceName : {"", "file-svc"}, LogLevel : {"", "debug", "verbose"},
   MetricsMode : {"", "push"}, MetricsPort : {0, 9091}]
EnvSettings ==
  [ServiceName : {"", "svc-a"}, LogLevel : {"", "warn", "invalid-level"},
   MetricsMode : {"", "hybrid", "bogus"}, MetricsPort : {0, 9092, 70000}]

\* the value of a field no source sets
Defaults_NoMode ==
  [ServiceName |-> "", LogLevel |-> "info", MetricsMode |-> "",
   MetricsPort |-> DefaultMetricsPort]
Defaults ==
  [ServiceName |-> "", LogLevel |-> "info", MetricsMode |-> "pull",
   MetricsPort |-> DefaultMetricsPort]

\* PickStr, had the environment been consulted before the file
PickStr_EnvFirst(ld, file, env, default) ==
  IF ld # "" THEN ld
  ELSE IF env # "" THEN env
  ELSE IF file # "" THEN file
  ELSE default

\* one field, by precedence: build-time constant, file, environment, default
PickStr(ld, file, env, default) ==
  IF ld # "" THEN ld
  ELSE IF file # "" THEN file
  ELSE IF env # "" THEN env
  ELSE default

PickInt(ld, file, env, default) ==
  IF ld # 0 THEN ld
  ELSE IF file # 0 THEN file
  ELSE IF env # 0 THEN env
  ELSE default

\* the resolved configuration, field by field
Resolve(src) ==
  [ServiceName |-> PickStr(src.ldflags.ServiceName, src.file.ServiceName,
                           src.env.ServiceName, Defaults.ServiceName),
   LogLevel |-> PickStr(src.ldflags.LogLevel, src.file.LogLevel,
                        src.env.LogLevel, Defaults.LogLevel),
   MetricsMode |-> PickStr(src.ldflags.MetricsMode, src.file.MetricsMode,
                           src.env.MetricsMode, Defaults.MetricsMode),
   MetricsPort |-> PickInt(src.ldflags.MetricsPort, src.file.MetricsPort,
                           src.env.MetricsPort, Defaults.MetricsPort)]

\* Violations, had validation stopped at the first violation
Violations_FirstOnly(c) ==
  IF c.ServiceName = "" THEN {"ServiceName"}
  ELSE IF c.LogLevel \notin LogLevels THEN {"LogLevel"}
  ELSE IF c.MetricsMode \notin MetricsModes THEN {"MetricsMode"}
  ELSE IF c.MetricsPort < 1 \/ c.MetricsPort > 65535 THEN {"MetricsPort"}
  ELSE {}

\* Violations, had the metrics mode been left unchecked
Violations_NoMode(c) ==
  (IF c.ServiceName = "" THEN {"ServiceName"} ELSE {})
    \cup (IF c.LogLevel \notin LogLevels THEN {"LogLevel"} ELSE {})
    \cup (IF c.MetricsPort < 1 \/ c.MetricsPort > 65535 THEN {"MetricsPort"} ELSE {})

\* the constraints a resolved configuration violates, all of them
Violations(c) ==
  (IF c.ServiceName = "" THEN {"ServiceName"} ELSE {})
    \cup (IF c.LogLevel \notin LogLevels THEN {"LogLevel"} ELSE {})
    \cup (IF c.MetricsMode \notin MetricsModes THEN {"MetricsMode"} ELSE {})
    \cup (IF c.MetricsPort < 1 \/ c.MetricsPort > 65535 THEN {"MetricsPort"} ELSE {})

\* LoadCfg(&cfg): resolve, validate, return nil or one error naming the
\* violations
LoadCfg ==
  /\ ~loaded.done
  /\ LET c == Resolve(sources)
     IN  loaded' = [done |-> TRUE, ok |-> Violations(c) = {}, cfg |-> c,
                    errors |-> Violations(c)]
  /\ UNCHANGED <<concVars, otelVars, chainVars, repeatVars, samplingVars, sources>>

\* the state the other variables have while the chains or the telemetry
\* lifecycle are followed
(***************************************************************************)
(* Concurrent requests: gin serves each request in a goroutine of its own, *)
(* with its own *gin.Context and its own locals in every middleware        *)
(***************************************************************************)
\* no second goroutine
NoGoroutine == [IdleRq EXCEPT !.dir = "none"]

InitConc0 == parked = NoGoroutine

\* what the handlers of concurrently served requests do
ConcurrentKinds == {"notfound", "panic"}

\* an HTTP request reaches the Gin chain in the running goroutine
HttpRequest_Arrive ==
  /\ rq.dir = "idle"
  /\ Arrive("http")
  /\ UNCHANGED <<auxVars, otelVars, mwCfg, last>>

\* the route's handler of a concurrently served request runs
GinHandler_Concurrent ==
  /\ Serve(ConcurrentKinds)
  /\ UNCHANGED <<auxVars, otelVars, mwCfg, last>>

\* Switch, had the trace context read by GinLoggerWithConfig been kept in
\* variables of the middleware constructor, shared by all requests
Switch_SharedTraceContext ==
  /\ parked.dir # "none"
  /\ rq' = [parked EXCEPT !.logTrace = rq.logTrace, !.logSpan = rq.logSpan]
  /\ parked' = rq
  /\ UNCHANGED <<otelVars, mwCfg, last, repeatVars, samplingVars, configVars>>

\* the scheduler runs the other goroutine: its *gin.Context and the locals
\* of its middleware calls come with it, the running one's are set aside
Switch ==
  /\ parked.dir # "none"
  /\ rq' = parked
  /\ parked' = rq
  /\ UNCHANGED <<otelVars, mwCfg, last, repeatVars, samplingVars, configVars>>

InitAux == InitRepeat /\ InitSampling0 /\ InitConfig0 /\ InitConc0

NextChain ==
  \/ Request_Arrive
  \/ GinTracingWithConfig_Enter
  \/ GinTracingWithConfig_Return
  \/ GinRecoveryWithConfig_Enter
  \/ GinRecoveryWithConfig_Return
  \/ GinRecoveryWithConfig_Recover
  \/ GinLoggerWithConfig_Enter
  \/ GinLoggerWithConfig_Return
  \/ GinLoggerWithConfig_Unwind
  \/ GinHandler
  \/ GrpcRecoveryInterceptor_Enter
  \/ GrpcRecoveryInterceptor_Return
  \/ GrpcRecoveryInterceptor_Recover
  \/ GrpcServerInterceptor_Enter
  \/ GrpcServerInterceptor_Return
  \/ GrpcServerInterceptor_Unwind
  \/ GrpcHandler
  \/ Request_Complete

InitChain == InitGlobals /\ InitC /\ InitAux

SpecChain == InitChain /\ [][NextChain]_vars

NextOtel ==
  \/ InitOtel
  \/ MetricsServerListenAndServe
  \/ EndSpan
  \/ BatchExport
  \/ CollectorFlip
  \/ Shutdown_Call
  \/ ContextDeadline
  \/ Shutdown_MetricsServer
  \/ Shutdown_TracerProvider
  \/ Shutdown_MeterProvider
  \/ Shutdown_Return

InitOtelSpec == InitO /\ mwCfg = NilCfg /\ rq = IdleRq /\ last = NoLast /\ InitAux

SpecOtel == InitOtelSpec /\ [][NextOtel]_vars

\* the Go runtime schedules the goroutine running the closure and fires the
\* timer of a ctx with a deadline
FairSpecOtel ==
  /\ SpecOtel
  /\ WF_vars(Shutdown_MetricsServer)
  /\ WF_vars(Shutdown_TracerProvider)
  /\ WF_vars(Shutdown_MeterProvider)
  /\ WF_vars(Shutdown_Return)
  /\ WF_vars(ContextDeadline)

\* the telemetry lifecycle with further InitOtel calls, lookups and further
\* invocations of the shutdown closure
NextOtelRepeat ==
  \/ InitOtel
  \/ MetricsServerListenAndServe
  \/ InitOtel_Again
  \/ GetTracer
  \/ GetMeter
  \/ Shutdown_Call
  \/ ContextDeadline
  \/ Shutdown_MetricsServer
  \/ Shutdown_TracerProvider
  \/ Shutdown_MeterProvider
  \/ Shutdown_Return
  \/ Shutdown_CallAgain

SpecOtelRepeat == InitOtelSpec /\ [][NextOtelRepeat]_vars

\* requests traced by a process whose InitOtel succeeded
NextSampling ==
  \/ Sampling_ServerSpan
  \/ Sampling_ChildSpan
  \/ Sampling_EndSpan
  \/ Sampling_Done

InitSamplingSpec ==
  /\ InitGlobals /\ otel = "ready"
  /\ mwCfg = NilCfg /\ rq = IdleRq /\ last = NoLast
  /\ InitRepeat /\ InitConfig0 /\ InitConc0
  /\ sampleRate \in SampleRates
  /\ trace = NoTrace

SpecSampling == InitSamplingSpec /\ [][NextSampling]_vars

\* LoadCfg over every combination of what the sources hold
\* two goroutines, each serving one HTTP request through the Gin chain
NextConcurrent ==
  \/ HttpRequest_Arrive
  \/ GinTracingWithConfig_Enter
  \/ GinTracingWithConfig_Return
  \/ GinRecoveryWithConfig_Enter
  \/ GinRecoveryWithConfig_Return
  \/ GinRecoveryWithConfig_Recover
  \/ GinLoggerWithConfig_Enter
  \/ GinLoggerWithConfig_Return
  \/ GinLoggerWithConfig_Unwind
  \/ GinHandler_Concurrent
  \/ Switch

InitConcurrent ==
  /\ InitGlobals /\ otel = "ready"
  /\ InitC
  /\ InitRepeat
  /\ InitSampling0
  /\ InitConfig0
  /\ parked = IdleRq

SpecConcurrent == InitConcurrent /\ [][NextConcurrent]_vars

\* the chains with handlers that start spans and replace the request's context
NextHandlerContext ==
  \/ Request_Arrive
  \/ GinTracingWithConfig_Enter
  \/ GinTracingWithConfig_Return
  \/ GinRecoveryWithConfig_Enter
  \/ GinRecoveryWithConfig_Return
  \/ GinRecoveryWithConfig_Recover
  \/ GinLoggerWithConfig_Enter
  \/ GinLoggerWithConfig_Return
  \/ GinLoggerWithConfig_Unwind
  \/ GinHandler_ReplacesContext
  \/ GrpcRecoveryInterceptor_Enter
  \/ GrpcRecoveryInterceptor_Return
  \/ GrpcRecoveryInterceptor_Recover
  \/ GrpcServerInterceptor_Enter
  \/ GrpcServerInterceptor_Return
  \/ GrpcServerInterceptor_Unwind
  \/ GrpcHandler_StartsSpan
  \/ Request_Complete

SpecHandlerContext == InitChain /\ [][NextHandlerContext]_vars

InitConfigSpec ==
  /\ InitO /\ cfgMode = "pull" /\ collectorUp
  /\ mwCfg = NilCfg /\ rq = IdleRq /\ last = NoLast
  /\ InitRepeat /\ InitSampling0 /\ InitConc0
  /\ sources \in [ldflags : LdflagsSettings, file : FileSettings, env : EnvSettings]
  /\ loaded = NotLoaded

SpecConfig == InitConfigSpec /\ [][LoadCfg]_vars

(***************************************************************************)
(* Properties of the telemetry lifecycle.                                  *)
(***************************************************************************)
Range(q) == {q[i] : i \in DOMAIN q}

\* the teardown calls the documentation names beside the three of the closure
StepStopPush == "pushReader.Shutdown"
StepFlushMP == "mp.ForceFlush"
StepFlushTP == "tp.ForceFlush"

\* the teardown orders the documentation allows for a set of attached readers
DocumentedOrders(rs) ==
  LET pre == IF "push" \in rs THEN <<StepStopPush>> ELSE <<>>
      srv == IF "pull" \in rs THEN <<StepServer>> ELSE <<>>
  IN  { pre \o fl \o srv \o <<StepTP, StepMP>> :
          fl \in {<<StepFlushMP, StepFlushTP>>, <<StepFlushTP, StepFlushMP>>} }

\* C1: every completed run of the shutdown closure performed the teardown in
\* the documented order: push reader stopped (if any), both providers
\* force-flushed, metrics listener closed (if active), tracer provider shut
\* down, then meter provider.
C1_TeardownOrder ==
  shutPc = "done" => steps \in DocumentedOrders(readers)

\* C2: whatever subset of teardown calls fails, the closure has attempted
\* every call when it returns, returns nil exactly when none failed, and
\* otherwise returns one error whose text names each call that failed.
C2_ShutdownCollectsAll ==
  shutPc = "done" =>
    /\ Range(steps) = TeardownSteps
    /\ Len(steps) = Cardinality(TeardownSteps)
    /\ result.nil <=> (failed = {})
    /\ Range(result.msg) = {ErrText(s) : s \in failed}

\* a run in which two calls failed and the closure returned
C2_Witness ==
  /\ shutPc = "done"
  /\ Cardinality(failed) >= 2
  /\ ~result.nil

\* C3: no provider is shut down before both providers were force-flushed,
\* and a shutdown that returns nil has handed every ended span to the
\* exporter.
C3_FlushBeforeProviderShutdown ==
  /\ (tpState = "shutdown" \/ mpState = "shutdown") =>
       {StepFlushMP, StepFlushTP} \subseteq Range(steps)
  /\ (shutPc = "done" /\ result.nil) => spansHanded = spansEnded

\* the readers and the listener each metrics mode is documented to have
ModeReaders(mode) ==
  CASE mode = "pull" -> {"pull"}
    [] mode = "push" -> {"push"}
    [] mode = "hybrid" -> {"pull", "push"}

\* C4: after a successful InitOtel the attached readers are those of the
\* configured mode, and the scrape server is started exactly in the modes
\* that have a pull reader.
C4_ReadersMatchMode ==
  otel = "ready" =>
    /\ readers = ModeReaders(cfgMode)
    /\ (metricsGo # "none") <=> ("pull" \in ModeReaders(cfgMode))

C6_ShutdownTerminates ==
  /\ (shutPc # "idle" /\ hasDeadline) ~> (shutPc = "done")
  /\ [](shutPc = "done" /\ hasDeadline =>
          /\ \A s \in blocked : ErrText(s) \in Range(result.msg)
          /\ blocked # {} => ~result.nil)

\* a shutdown with a deadline returned an error because a component hung
C6_Witness ==
  /\ shutPc = "done"
  /\ hasDeadline
  /\ StepTP \in blocked
  /\ ~result.nil
  /\ ErrText(StepTP) \in Range(result.msg)

(***************************************************************************)
(* Properties of the instrumentation chains.                               *)
(***************************************************************************)
\* the order-bearing events of a request: span start, guard, start timestamp
Marks(r) == SelectSeq(r.events, LAMBDA e : e \in {"span.start", "recovery.guard", "logging.start"})
\* the stage entries of a request
Entries(r) == SelectSeq(r.events, LAMBDA e : e \in {"tracing.enter", "recovery.guard", "logging.enter"})
ReachedHandler(r) == "handler" \in Range(r.events)

C8_OneSpanOneRecord ==
  rq.transport = "http" =>
    /\ Skipped => (rq.spansStarted = 0 /\ rq.logs = <<>>)
    /\ rq.spansStarted <= 1 /\ Len(rq.logs) <= 1
    /\ (rq.dir = "done" /\ ~Skipped) =>
         (rq.spansStarted = 1 /\ rq.spansEnded = 1 /\ Len(rq.logs) = 1)

\* a panicking request off a skip route has left the chain with one record
C8_Witness ==
  /\ rq.dir = "done" /\ rq.transport = "http" /\ ~Skipped
  /\ rq.kind = "write_panic"
  /\ Len(rq.logs) = 1 /\ rq.spansStarted = 1

\* the handler had sent the response header before it panicked
HadWritten(r) == HandlerWrites(FreshWriter, r.kind).written

\* the body is the error object alone, with the documented fields
IsErrorBody(body, path) ==
  /\ Len(body) = 1
  /\ {"error", "message", "path"} \subseteq DOMAIN body[1]
  /\ body[1]["error"] = "Internal Server Error"
  /\ body[1]["message"] = GenericMessage
  /\ body[1]["message"] # ""
  /\ body[1]["path"] = path

\* C9 as stated: every recovered panic on a non-skip route ends in status 500
\* with the JSON error body, whatever the handler had set or written.
C9_PanicAlways500 ==
  (rq.dir = "done" /\ rq.transport = "http" /\ ~Skipped /\ Panics(rq.kind)) =>
    (rq.w.status = 500 /\ IsErrorBody(rq.w.body, rq.path))

\* C9 amended: that holds when the handler had not sent the response header
\* (a status only set is overridden); when it had, the status sent stands and
\* the error object follows the bytes already written.
C9_Panic500UnlessWritten ==
  (rq.dir = "done" /\ rq.transport = "http" /\ ~Skipped /\ Panics(rq.kind)) =>
    IF HadWritten(rq)
    THEN /\ rq.w.status = HandlerWrites(FreshWriter, rq.kind).status
         /\ Len(rq.w.body) = 2
         /\ rq.w.body[1] = PartialBody
         /\ IsErrorBody(<<rq.w.body[2]>>, rq.path)
    ELSE rq.w.status = 500 /\ IsErrorBody(rq.w.body, rq.path)

\* a handler set a status without sending it, panicked, and the client got 500
C9_Witness ==
  /\ rq.dir = "done" /\ rq.transport = "http" /\ ~Skipped
  /\ rq.kind = "status_panic"
  /\ rq.w.status = 500
  /\ rq.w.written

\* two requests alike in everything but what the handler panicked with
SameButPayload(a, b) ==
  /\ a.transport = b.transport /\ a.path = b.path /\ a.method = b.method
  /\ a.kind = b.kind /\ a.ambient = b.ambient

\* the payload's text is in no field of the response
PayloadHidden(r) ==
  /\ \A i \in DOMAIN r.w.body : \A k \in DOMAIN r.w.body[i] :
       r.w.body[i][k] # Sprintf_v(r.payload)
  /\ r.rpc.msg # Sprintf_v(r.payload)
  /\ r.rpc.trailer # Sprintf_v(r.payload)
  /\ r.xTraceID # Sprintf_v(r.payload)

\* C10: the response to a recovered panic is the same for two requests that
\* differ only in the panic payload, on HTTP and on RPC, and holds the
\* payload nowhere.
C10_ResponseIgnoresPayload ==
  (rq.dir = "done" /\ Recovered(rq)) =>
    /\ PayloadHidden(rq)
    /\ (last.valid /\ SameButPayload(Summary(rq), last)) =>
         /\ rq.w = last.w
         /\ rq.xTraceID = last.xTraceID
         /\ rq.rpc = last.rpc

\* two HTTP requests, alike but for the payload, both answered after a panic
C10_Witness ==
  /\ rq.dir = "done" /\ Recovered(rq) /\ rq.transport = "http"
  /\ last.valid /\ SameButPayload(Summary(rq), last)
  /\ rq.payload # last.payload
  /\ rq.xTraceID # ""
  /\ rq.w = last.w

\* the records of a request written at error level
ErrorRecords(r) == SelectSeq(r.logs, LAMBDA l : l.level = "error")
\* the records of a request written by the Logging stage (the request records)
RequestRecords(r) ==
  SelectSeq(r.logs, LAMBDA l : l.msg \notin {"Panic recovered",
                                             "Panic recovered in gRPC handler",
                                             "Panic recovered in gRPC stream handler"})
\* the position of the first occurrence of an event of a request, 0 if none
Position(r, ev) ==
  IF ev \in Range(r.events)
  THEN CHOOSE i \in DOMAIN r.events :
         r.events[i] = ev /\ \A j \in 1..(i - 1) : r.events[j] # ev
  ELSE 0

\* C11: a panic in a unary or streaming RPC handler ends in a nil response and
\* a status error with code Internal and a message that is the same for every
\* panic; the trace id is the trailer's trace_id exactly when it is not the
\* all-zero id, and is never the status message.
C11_RpcPanicInternal ==
  (rq.dir = "done" /\ IsRpc /\ Panics(rq.kind)) =>
    /\ ~rq.escaped
    /\ rq.rpc.resp = "nil"
    /\ rq.rpc.errType = "status" /\ rq.rpc.code = "Internal"
    /\ rq.rpc.msg # ""
    /\ rq.rpc.msg # TraceIDString(rq.ambient.trace)
    /\ (last.valid /\ last.transport \in {"unary", "stream"}) => rq.rpc.msg = last.rpc.msg
    /\ IF rq.ambient.trace # 0
       THEN rq.rpc.trailer = TraceIDString(rq.ambient.trace)
       ELSE rq.rpc.trailer = ""

\* a streaming RPC with a trace id panicked and was answered with the trailer
\* set, after a unary RPC without a trace id had panicked
C11_Witness ==
  /\ rq.dir = "done" /\ rq.transport = "stream" /\ Panics(rq.kind)
  /\ rq.ambient.trace # 0 /\ rq.rpc.trailer = TraceIDString(rq.ambient.trace)
  /\ last.valid /\ last.transport = "unary" /\ last.ambient.trace = 0
  /\ last.rpc.trailer = ""

\* C12: a handler panic off a skip route, through the full chain, leaves
\* exactly one error-level record for the request; its error field is the
\* text of the value the handler panicked with, it names the route and method,
\* and it has a stack trace.
C12_OnePanicRecord ==
  (rq.dir = "done" /\ ~Skipped /\ Panics(rq.kind)) =>
    /\ Len(ErrorRecords(rq)) = 1
    /\ LET l == ErrorRecords(rq)[1]
       IN  /\ l.error = rq.thrown.text
           /\ l.stack
           /\ IF rq.transport = "http"
              THEN l.path = rq.path /\ l.method = rq.method /\ l.path # ""
              ELSE l.method = rq.path /\ l.method # ""

\* an HTTP handler panicked with an error value after writing part of a body
C12_Witness ==
  /\ rq.dir = "done" /\ rq.transport = "http" /\ ~Skipped
  /\ rq.kind = "write_panic" /\ rq.thrown.type = "error"
  /\ Len(ErrorRecords(rq)) = 1
  /\ ErrorRecords(rq)[1].error = "connection refused"

\* C13: with recovery registered before the request logger, a request whose
\* handler panicked and was recovered still produces the logger's request
\* record.
C13_LoggerLogsRecovered ==
  (rq.dir = "done" /\ ~Skipped /\ Recovered(rq)) =>
    /\ "log" \in Range(rq.events)
    /\ Len(RequestRecords(rq)) = 1

\* C14: on a skip route whose handler panics, the Recovery stage re-raises:
\* the panic leaves the chain with the value the handler raised, nothing is
\* written to the response beyond what the handler wrote, and no record is
\* logged.
C14_SkipRouteReraises ==
  (rq.dir = "done" /\ rq.transport = "http" /\ Skipped /\ Panics(rq.kind)) =>
    /\ rq.escaped
    /\ rq.payload = rq.thrown /\ rq.payload # NoPayload
    /\ rq.logs = <<>>
    /\ rq.w = HandlerWrites(FreshWriter, rq.kind)
    /\ rq.w.status # 500
    /\ "panic.recovered" \notin Range(rq.events)

\* a panic on a skip route has passed the Recovery stage and left the chain
C14_Witness ==
  /\ rq.dir = "done" /\ rq.transport = "http" /\ Skipped
  /\ rq.kind = "panic" /\ rq.escaped
  /\ "panic.reraised" \in Range(rq.events)
  /\ rq.payload = rq.thrown

\* C15: a span the Tracing stage started is ended once, and its end comes
\* after the handler and after the Recovery and Logging stages have finished,
\* whether the handler answered, answered with an error status, or panicked.
C15_SpanEndsLast ==
  /\ rq.spansEnded <= rq.spansStarted
  /\ Len(SelectSeq(rq.events, LAMBDA e : e = "span.end")) <= 1
  /\ "span.end" \in Range(rq.events) =>
       /\ rq.events[Len(rq.events)] = "span.end"
       /\ Position(rq, "span.start") > 0
       /\ Position(rq, "handler") > Position(rq, "span.start")
       /\ \/ Position(rq, "log") > Position(rq, "handler")
          \/ Position(rq, "panic.recovered") > Position(rq, "handler")
  /\ (rq.dir = "done" /\ rq.spansStarted > 0) =>
       (rq.spansEnded = rq.spansStarted /\ "span.end" \in Range(rq.events))

\* a span was ended after a panic had been converted into a response
C15_Witness ==
  /\ rq.dir = "done" /\ rq.transport = "http"
  /\ rq.kind = "panic" /\ rq.spansStarted = 1 /\ rq.spansEnded = 1
  /\ rq.events[Len(rq.events)] = "span.end"
  /\ Position(rq, "panic.recovered") > Position(rq, "handler")

\* the names of the fields of a record that carry trace context
TraceKeys(l) == {f[1] : f \in l.fields} \cap {"trace_id", "span_id"}

\* C16: the Logging stage's record, on HTTP, unary and streaming RPC, holds
\* trace_id and span_id when both ids of the ambient span are non-zero and
\* holds neither otherwise; an all-zero id is never logged.
C16_TraceFieldsTogether ==
  \A i \in DOMAIN RequestRecords(rq) :
    LET l == RequestRecords(rq)[i]
    IN  /\ TraceKeys(l) \in {{}, {"trace_id", "span_id"}}
        /\ (rq.ambient.trace # 0 /\ rq.ambient.span # 0) =>
             {<<"trace_id", TraceIDString(rq.ambient.trace)>>,
              <<"span_id", SpanIDString(rq.ambient.span)>>} \subseteq l.fields
        /\ (rq.ambient.trace = 0 /\ rq.ambient.span = 0) => TraceKeys(l) = {}
        /\ <<"trace_id", ZeroTraceID>> \notin l.fields
        /\ <<"span_id", ZeroSpanID>> \notin l.fields

\* the severity the documentation gives an HTTP status
DocumentedHttpLevel(statusCode) ==
  IF statusCode >= 500 THEN "error"
  ELSE IF 400 <= statusCode /\ statusCode <= 499 THEN "warn"
  ELSE "info"

\* C17: the Logging stage writes the record of an HTTP response at one
\* severity: error from status 500 up, warning from 400 to 499, info for
\* every other status.
C17_HttpSeverity ==
  rq.transport = "http" =>
    /\ Len(RequestRecords(rq)) <= 1
    /\ \A i \in DOMAIN RequestRecords(rq) :
         LET l == RequestRecords(rq)[i]
         IN  /\ l.status = rq.w.status
             /\ l.level = DocumentedHttpLevel(rq.w.status)
    /\ (rq.dir = "done" /\ ~Skipped /\ ~Panics(rq.kind)) => Len(RequestRecords(rq)) = 1

\* a response with the boundary status 500 was logged at error
C17_Witness ==
  /\ rq.dir = "done" /\ rq.transport = "http" /\ ~Skipped
  /\ rq.kind = "fail" /\ rq.w.status = 500
  /\ Len(rq.logs) = 1 /\ rq.logs[1].level = "error"

\* the codes the documentation calls client faults
ClientFaultCodes ==
  {"Canceled", "InvalidArgument", "NotFound", "AlreadyExists", "PermissionDenied",
   "Unauthenticated", "FailedPrecondition", "OutOfRange"}

\* C18: the unary and the streaming logging interceptor log a call that ends
\* with code OK at info, with one of the eight client-fault codes at warning,
\* and with any other code at error.
C18_RpcSeverity ==
  (rq.dir = "done" /\ IsRpc /\ rq.kind \in ErrorCodes \cup {"ok"}) =>
    /\ Len(rq.logs) = 1
    /\ rq.logs[1].level =
         (IF rq.kind = "ok" THEN "info"
          ELSE IF rq.kind \in ClientFaultCodes THEN "warn"
          ELSE "error")
    /\ <<"grpc_code", IF rq.kind = "ok" THEN "OK" ELSE rq.kind>> \in rq.logs[1].fields

\* a streaming call that ended with OutOfRange was logged at warning
C18_Witness ==
  /\ rq.dir = "done" /\ rq.transport = "stream" /\ rq.kind = "OutOfRange"
  /\ Len(rq.logs) = 1 /\ rq.logs[1].level = "warn"
  /\ rq.logs[1].msg = "gRPC Stream Client Error"

\* C19: an RPC that ended because the call was cancelled is logged at warning,
\* whether the handler returned a status with code Canceled or the context's
\* own cancellation error.
C19_CancelledIsClientFault ==
  (rq.dir = "done" /\ IsRpc /\ rq.kind \in {"Canceled", "ctx_canceled"}) =>
    /\ Len(rq.logs) = 1
    /\ rq.logs[1].level = "warn"

\* C20: every stage's skip decision for a request is: never skip without a
\* middleware config; the predicate's answer when a predicate is set, whatever
\* the excluded paths hold; otherwise whether the path is one of the excluded
\* paths; and the stages of one request agree.
C20_SkipDecision ==
  /\ \A d \in rq.decisions :
       /\ mwCfg.isNil => d[2] = FALSE
       /\ (~mwCfg.isNil /\ mwCfg.hasPred) => d[2] = (rq.path \in mwCfg.pred)
       /\ (~mwCfg.isNil /\ ~mwCfg.hasPred) => d[2] = (rq.path \in mwCfg.excluded)
  /\ Cardinality({d[2] : d \in rq.decisions}) <= 1
  /\ (rq.dir = "done" /\ rq.transport = "http") =>
       {"tracing", "logging"} \subseteq {d[1] : d \in rq.decisions}

\* with a predicate set, a request to a path the excluded paths list but the
\* predicate rejects went through all three stages unskipped
C20_Witness ==
  /\ rq.dir = "done" /\ rq.transport = "http"
  /\ mwCfg.hasPred /\ rq.path \in mwCfg.excluded /\ rq.path \notin mwCfg.pred
  /\ rq.decisions = {<<"tracing", FALSE>>, <<"recovery", FALSE>>, <<"logging", FALSE>>}

\* C21: off a skip route the response has the X-Trace-ID header exactly when
\* the span the Tracing stage started has a non-zero trace id, and the header
\* is that trace id; on a skip route the chain sets no such header.
C21_TraceHeader ==
  (rq.transport = "http" /\ "tracing.enter" \in Range(rq.events)) =>
    IF Skipped
    THEN rq.xTraceID = ""
    ELSE /\ (rq.xTraceID # "") <=> (rq.ambient.trace # 0)
         /\ rq.ambient.trace # 0 => rq.xTraceID = TraceIDString(rq.ambient.trace)
         /\ rq.xTraceID # ZeroTraceID

\* a request served with no tracer provider installed was answered without
\* the header
C21_Witness ==
  /\ rq.dir = "done" /\ rq.transport = "http" /\ ~Skipped
  /\ "TracerProvider" \notin globals
  /\ rq.spansStarted = 1 /\ rq.ambient.trace = 0
  /\ rq.xTraceID = ""

\* C23: a metrics listener that cannot bind its port, like an exporter that
\* cannot be constructed, makes InitOtel return an error and no shutdown
\* function: success is never reported for a listener that failed to serve.
C23_InitFailsWithoutListener ==
  /\ bindFailed => otel # "ready"
  /\ otel = "failed" => shutPc = "idle"

\* C24: after every successful InitOtel at least one metric reader is
\* attached, the pull reader when the configuration gave none, and once the
\* listener goroutine has run the process can be scraped until shutdown.
C24_AlwaysScrapeable ==
  otel = "ready" =>
    /\ readers # {}
    /\ (ModeReaders(cfgMode) \cap readers = {}) => readers = {"pull"}
    /\ (metricsGo # "spawned" /\ ~inShutdown) => Scrapeable

(***************************************************************************)
(* Properties of repeated calls, of the sampler and of LoadCfg.            *)
(***************************************************************************)
\* C22: once a tracer provider, meter provider or propagator is registered
\* process-wide, no later step (a further InitOtel call included) registers
\* another in its place, and GetTracer / GetMeter change nothing but what
\* they return.
C22_HandleNeverReplaced ==
  [][/\ \A g \in GlobalSlots :
          g \in globals => (g \in globals' /\ globalsOwner'[g] = globalsOwner[g])
     /\ lookup' # lookup => UNCHANGED <<otelVars, globalsOwner, again>>]_vars

\* C25: the sampling decision is taken once, at the root of the trace: a
\* root span started here is never sampled at ratio 0 and always at ratio 1,
\* and every other span of the trace, the span of a request that carries an
\* upstream parent included, has the decision of the root.
C25_SampledOnceAtRoot ==
  trace.phase = "open" =>
    LET root == IF trace.remote THEN trace.parentSampled ELSE trace.spans[1].sampled
    IN  /\ \A i \in DOMAIN trace.spans : trace.spans[i].sampled = root
        /\ (~trace.remote /\ sampleRate = 0) => ~trace.spans[1].sampled
        /\ (~trace.remote /\ sampleRate = 100) => trace.spans[1].sampled

\* C26: a further invocation of the shutdown closure makes no teardown call:
\* it does not close the metrics listener or shut down the providers again.
C26_SecondShutdownNoOp ==
  shutCalls > 0 => steps = <<>>

\* C27: a field set in two sources has the value of the higher one (build
\* time over file over environment), whatever the other fields are set to.
C27_HigherSourceWins ==
  loaded.done =>
    /\ sources.ldflags.ServiceName # "" =>
         loaded.cfg.ServiceName = sources.ldflags.ServiceName
    /\ (sources.ldflags.ServiceName = "" /\ sources.file.ServiceName # "") =>
         loaded.cfg.ServiceName = sources.file.ServiceName
    /\ sources.file.LogLevel # "" => loaded.cfg.LogLevel = sources.file.LogLevel
    /\ sources.file.MetricsMode # "" => loaded.cfg.MetricsMode = sources.file.MetricsMode
    /\ sources.file.MetricsPort # 0 => loaded.cfg.MetricsPort = sources.file.MetricsPort
    /\ (sources.file.LogLevel = "" /\ sources.env.LogLevel # "") =>
         loaded.cfg.LogLevel = sources.env.LogLevel
    /\ (sources.file.MetricsMode = "" /\ sources.env.MetricsMode # "") =>
         loaded.cfg.MetricsMode = sources.env.MetricsMode

\* the file sets the log level and the environment sets log level and mode:
\* the level is the file's, the mode the environment's
C27_Witness ==
  /\ loaded.done
  /\ sources.file.LogLevel = "debug" /\ sources.env.LogLevel = "warn"
  /\ sources.file.MetricsMode = "" /\ sources.env.MetricsMode = "hybrid"
  /\ sources.ldflags.ServiceName = "ld-svc" /\ sources.env.ServiceName = "svc-a"
  /\ loaded.cfg.LogLevel = "debug" /\ loaded.cfg.MetricsMode = "hybrid"
  /\ loaded.cfg.ServiceName = "ld-svc"

\* C28: LoadCfg succeeds only with a non-empty service name, an enumerated
\* log level and an enumerated metrics mode; it fails whenever one of them
\* is violated.
C28_NoInvalidConfig ==
  loaded.done =>
    (loaded.ok =>
       /\ loaded.cfg.ServiceName # ""
       /\ loaded.cfg.LogLevel \in {"debug", "info", "warn", "error"}
       /\ loaded.cfg.MetricsMode \in {"pull", "push", "hybrid"})

\* resolution failed on the metrics mode alone
C28_Witness ==
  /\ loaded.done /\ ~loaded.ok
  /\ loaded.cfg.ServiceName = "svc-a" /\ loaded.cfg.LogLevel = "info"
  /\ loaded.cfg.MetricsMode = "bogus"
  /\ loaded.cfg.MetricsPort = DefaultMetricsPort

\* C29: a failed resolution names every violated constraint, not only the
\* first.
C29_AggregateFailure ==
  (loaded.done /\ ~loaded.ok) =>
    /\ ("ServiceName" \in loaded.errors) <=> (loaded.cfg.ServiceName = "")
    /\ ("LogLevel" \in loaded.errors) <=>
         (loaded.cfg.LogLevel \notin {"debug", "info", "warn", "error"})
    /\ ("MetricsMode" \in loaded.errors) <=>
         (loaded.cfg.MetricsMode \notin {"pull", "push", "hybrid"})
    /\ ("MetricsPort" \in loaded.errors) <=>
         (loaded.cfg.MetricsPort < 1 \/ loaded.cfg.MetricsPort > 65535)
    /\ loaded.errors # {}

\* three constraints were violated at once and all three are named
C29_Witness ==
  /\ loaded.done /\ ~loaded.ok
  /\ loaded.cfg.ServiceName = ""
  /\ loaded.cfg.LogLevel = "invalid-level"
  /\ loaded.cfg.MetricsMode = "bogus"
  /\ loaded.errors = {"ServiceName", "LogLevel", "MetricsMode"}

\* only the service name is set, by one source or more
OnlyServiceName(src) ==
  /\ \E so \in {"ldflags", "file", "env"} : src[so].ServiceName # ""
  /\ \A so \in {"ldflags", "file", "env"} :
       /\ src[so].LogLevel = "" /\ src[so].MetricsMode = "" /\ src[so].MetricsPort = 0

\* C30: with only the service name supplied, resolution succeeds with log
\* level info, metrics mode pull and metrics port 9090.
C30_DefaultsApply ==
  (loaded.done /\ OnlyServiceName(sources)) =>
    /\ loaded.ok
    /\ loaded.cfg.ServiceName # ""
    /\ loaded.cfg.LogLevel = "info"
    /\ loaded.cfg.MetricsMode = "pull"
    /\ loaded.cfg.MetricsPort = 9090

\* SERVICE_NAME=svc-a alone in the environment
C30_Witness ==
  /\ loaded.done /\ loaded.ok
  /\ sources.env = [Unset EXCEPT !.ServiceName = "svc-a"]
  /\ sources.file = Unset /\ sources.ldflags = Unset
  /\ loaded.cfg.ServiceName = "svc-a"

(***************************************************************************)
(* Concurrent requests                                                     *)
(***************************************************************************)
\* the records, the error body and the response header of request r carry
\* r's own path, method, status and trace context
OwnTelemetry(r) ==
  LET traceID == TraceIDString(r.ambient.trace)
      spanID == SpanIDString(r.ambient.span)
  IN  /\ \A l \in Range(r.logs) :
           /\ l.path = r.path
           /\ l.method = r.method
           /\ IF l.stack
              THEN l.fields = {<<"trace_id", traceID>>}
              ELSE /\ l.status = r.w.status
                   /\ l.fields = TraceFields(traceID, spanID)
      /\ \A b \in Range(r.w.body) :
           "error" \in DOMAIN b =>
             /\ b["path"] = r.path
             /\ "trace_id" \in DOMAIN b => b["trace_id"] = traceID
      /\ r.xTraceID \in {"", traceID}

\* C31: under any interleaving of two concurrently served requests, the log
\* records, the error response and the X-Trace-ID header of each request carry
\* the path, method, status and trace context of that same request
C31_RequestsIsolated ==
  /\ OwnTelemetry(rq)
  /\ parked.dir # "none" => OwnTelemetry(parked)

\* two requests in flight at once, for different paths and in different
\* traces, each of which has written a record
C31_Witness ==
  /\ parked.dir \in {"down", "up", "panic"}
  /\ rq.dir \in {"down", "up", "panic"}
  /\ rq.logs # <<>> /\ parked.logs # <<>>
  /\ rq.path # parked.path
  /\ rq.ambient.trace # 0 /\ parked.ambient.trace # 0
  /\ rq.ambient.trace # parked.ambient.trace
  /\ rq.kind = "panic" /\ parked.kind # "panic"

(***************************************************************************)
(* Results of handlers that return                                         *)
(***************************************************************************)
\* C32: when the handler returns, with or without an error, the caller gets
\* exactly what the handler produced: for an RPC its response, error and
\* status code, for an HTTP request its status and body
C32_ResultUnchanged ==
  (rq.dir \in {"up", "done"} /\ rq.kind # "" /\ ~Panics(rq.kind)) =>
    IF rq.transport = "http"
    THEN rq.w = HandlerWrites(FreshWriter, rq.kind)
    ELSE /\ rq.rpc = HandlerReturns(rq.kind)
         /\ StatusCode(rq.rpc) = StatusCode(HandlerReturns(rq.kind))

\* a unary call whose handler returned an error has left the chain, logged
C32_Witness ==
  /\ rq.dir = "done" /\ rq.transport = "unary" /\ rq.kind = "NotFound"
  /\ rq.rpc.errType = "status" /\ rq.rpc.code = "NotFound"
  /\ \E l \in Range(rq.logs) : l.level = "warn"

(***************************************************************************)
(* Trace ids of recovered panics                                           *)
(***************************************************************************)
\* the records the recovery stage wrote
PanicRecords(r) == SelectSeq(r.logs, LAMBDA l : l.stack)

\* C33: when a panic is recovered and the request's context carries no span,
\* or the all-zero trace id, the panic record carries an empty trace id, never
\* the all-zero one, and the HTTP error body has no trace_id
C33_NoSpanEmptyTraceId ==
  (Recovered(rq) /\ rq.dir \in {"up", "done"}
     /\ \E i \in DOMAIN rq.events : rq.events[i] = "panic.recovered"
     /\ rq.ambient.trace = 0) =>
    /\ \A l \in Range(PanicRecords(rq)) :
         \A f \in l.fields : f[1] = "trace_id" => f[2] = ""
    /\ rq.transport = "http" =>
         \A b \in Range(rq.w.body) : "error" \in DOMAIN b => "trace_id" \notin DOMAIN b

\* the trace_id the recovery stage put in the error body of r, "" if none
BodyTraceID(r) ==
  IF \E b \in Range(r.w.body) : "trace_id" \in DOMAIN b
  THEN (CHOOSE b \in Range(r.w.body) : "trace_id" \in DOMAIN b)["trace_id"]
  ELSE ""

\* C34: when the handler of a request on a non-skip route panics under the
\* three-stage chain, the X-Trace-ID header, the trace_id of the 500 body and
\* the trace_id of the panic record all carry the trace id of the span the
\* tracing stage started
C34_OneTraceIdEverywhere ==
  (rq.transport = "http" /\ ~Skipped /\ Recovered(rq) /\ rq.dir \in {"up", "done"}
     /\ PanicRecords(rq) # <<>>) =>
    LET t == TraceIDString(rq.started.trace)
    IN  /\ rq.xTraceID = t
        /\ BodyTraceID(rq) = t
        /\ \A l \in Range(PanicRecords(rq)) : l.fields = {<<"trace_id", t>>}

\* C34 (amended): the X-Trace-ID header carries the trace id of the span the
\* tracing stage started, when that is valid; the trace_id of the panic record
\* and of the 500 body are taken from the span in the request's context when
\* the panic is recovered, the body leaving an invalid one out; the three
\* agree when that context still carries a span of the started span's trace
C34_TraceIdOfCurrentContext ==
  (rq.transport = "http" /\ ~Skipped /\ Recovered(rq) /\ rq.dir \in {"up", "done"}
     /\ PanicRecords(rq) # <<>>) =>
    LET t == TraceIDString(rq.started.trace)
        c == TraceIDString(rq.ambient.trace)
    IN  /\ rq.xTraceID = IF rq.started.trace # 0 THEN t ELSE ""
        /\ BodyTraceID(rq) = IF rq.ambient.trace # 0 THEN c ELSE ""
        /\ \A l \in Range(PanicRecords(rq)) : l.fields = {<<"trace_id", c>>}
        /\ (rq.started.trace # 0 /\ rq.ambient.trace = rq.started.trace) =>
             /\ rq.xTraceID = t
             /\ BodyTraceID(rq) = t
             /\ \A l \in Range(PanicRecords(rq)) : l.fields = {<<"trace_id", t>>}

\* a panic was recovered after the handler had put a child of the tracing
\* stage's span in the request: header, body and record carry one trace id
C34_Witness ==
  /\ rq.transport = "http" /\ ~Skipped /\ Recovered(rq) /\ rq.dir = "done"
  /\ rq.started.trace # 0
  /\ rq.handlerCtx.trace = rq.started.trace /\ rq.handlerCtx.span # rq.started.span
  /\ rq.ambient = rq.handlerCtx
  /\ rq.xTraceID = TraceIDString(rq.started.trace)
  /\ BodyTraceID(rq) = rq.xTraceID
  /\ PanicRecords(rq) # <<>>

(***************************************************************************)
(* Trace context of the request record                                     *)
(***************************************************************************)
\* the span that was in the request's context when the logging stage began:
\* the tracing stage's span for the Gin chain, the span of the call's ctx for
\* the gRPC chains
SpanAtLogging(r) == IF r.transport = "http" THEN r.started ELSE r.upstream

\* C37: the trace_id and span_id of the request record are those of the span
\* in the request's context when the logging stage was entered, whatever span
\* the handler started or context it put in the request meanwhile
C37_LoggedIdsFromEntry ==
  \A l \in Range(RequestRecords(rq)) :
    {f \in l.fields : f[1] \in {"trace_id", "span_id"}}
      = TraceFields(TraceIDString(SpanAtLogging(rq).trace),
                    SpanIDString(SpanAtLogging(rq).span))

\* a Gin request was logged with the tracing stage's ids after its handler
\* had replaced the request's context by one without a span
C37_Witness ==
  /\ rq.transport = "http" /\ rq.dir \in {"up", "done"}
  /\ rq.started.trace # 0
  /\ rq.handlerCtx = NoSpan /\ rq.ambient = NoSpan
  /\ \E l \in Range(RequestRecords(rq)) :
       <<"trace_id", TraceIDString(rq.started.trace)>> \in l.fields

(***************************************************************************)
(* InitOtel's error returns, and the listener goroutine against shutdown   *)
(***************************************************************************)
\* C35: whenever InitOtel returns an error, no tracer provider with a live
\* batch processor is left, no global provider has been replaced and no
\* metrics listener goroutine has been started
C35_FailedInitLeavesNothing ==
  otel = "failed" =>
    /\ tpState = "none"
    /\ mpState = "none"
    /\ globals = {}
    /\ metricsGo = "none"

\* C36: however the listener goroutine and the shutdown closure interleave,
\* once the closure has returned the scrape endpoint is not accepting, in this
\* state and (the closure staying returned) in every later one
C36_NoListenerAfterShutdown ==
  shutPc = "done" => ~Scrapeable

\* the closure ran to its end before the goroutine began to listen
C36_Witness ==
  /\ shutPc = "done"
  /\ metricsGo = "spawned"
  /\ inShutdown
  /\ StepServer \in Range(steps)

====
